---- MODULE Spec2Model ----
(***************************************************************************)
(* Model of the hybrid knowledge-graph pipeline:                           *)
(*   src/src/infrastructure/neo4j_client.py  (SkosGraphGateway)            *)
(*   src/src/application/services.py         (KnowledgeGraphService)       *)
(*   src/src/controllers/analyze_controller.py (POST /analyze)             *)
(*                                                                         *)
(* Conventions.  A Python str is a sequence of one-character strings, so   *)
(* that lower(), strip() and the substring test are computed.  A Python    *)
(* Optional value is a sequence of length 0 (None) or 1 (the value).       *)
(* Identifiers (iris) are atoms.  A float score is counted in tenths.      *)
(***************************************************************************)
EXTENDS Integers, Sequences, FiniteSets, TLC

VARIABLES
    driver,            \* SkosGraphGateway.driver is set (remote backend configured)
    fallback_graph,    \* SkosGraphGateway.fallback_graph: None or the ordered dict
    neo4j_edges,       \* relationships stored in the remote graph database
    ret,               \* last direct gateway call: its arguments and its outcome
    ollama_client,     \* KnowledgeGraphService.ollama_client is provided
    graph_gateway,     \* KnowledgeGraphService.graph_gateway is provided
    pc,                \* position of the /analyze request
    request,           \* the AnalyzeRequest built by the controller
    mentions,          \* MentionExtraction.mentions
    candidate_selections, \* list[MentionCandidates]
    qi,                \* number of shortest-path queries of _compute_paths already issued
    paths,             \* evidence list of _compute_paths
    path_sentences,    \* result of _paths_to_text
    summary_text,      \* result of _summarize_paths
    decisions,         \* list[DisambiguatedMention] built by _decide_candidates
    generation,        \* outcome of the last text-generation call of this request
    calls,             \* external calls issued by this request, in order
    error,             \* Optional exception that ended the request
    http_status,       \* Optional HTTP status answered by the controller
    idempotence_key,   \* Optional idempotence key analyze gave the request
    stub,              \* None for a live text-generation model; for a deterministic
                       \* stub, the answers it has given so far, by prompt
    parked             \* None, or the local variables of the other in-flight request

gateway_vars == <<driver, fallback_graph, neo4j_edges>>
service_vars == <<ollama_client, graph_gateway>>
request_vars == <<pc, request, mentions, candidate_selections, qi, paths,
                  path_sentences, summary_text, decisions, generation, calls,
                  error, http_status, idempotence_key>>
worker_vars == <<stub, parked>>
vars == <<driver, fallback_graph, neo4j_edges, ret, ollama_client, graph_gateway,
          pc, request, mentions, candidate_selections, qi, paths, path_sentences,
          summary_text, decisions, generation, calls, error, http_status,
          idempotence_key, stub, parked>>

\* ------------------------------------------------------------------ bounds

\* largest max_hops a request or a direct call asks for
MaxHops == 2
\* largest hub_threshold a request or a direct call asks for
MaxHubThreshold == 2
\* largest top_k / limit
MaxTopK == 2
\* number of entries of FallbackEdgePool a fallback graph may hold
NumFallbackEdges == 5
\* number of entries of Neo4jEdgePool the remote graph may hold
NumNeo4jEdges == 5

\* ------------------------------------------------------------ basic values

None == <<>>
Some(x) == <<x>>
NoneIri == "None"

Min(a, b) == IF a <= b THEN a ELSE b
Max(a, b) == IF a >= b THEN a ELSE b

Iris == {"c1", "c2", "c3", "c4"}
UnknownIri == "u0"

\* str.lower() on one character
LowerChar(c) ==
    CASE c = "G" -> "g"
      [] c = "N" -> "n"
      [] c = "T" -> "t"
      [] OTHER -> c

\* str.lower()
Lower(s) == [i \in 1..Len(s) |-> LowerChar(s[i])]

\* Python's `sub in s` on strings
Contains(sub, s) ==
    \E i \in 0..(Len(s) - Len(sub)) : SubSeq(s, i + 1, i + Len(sub)) = sub

\* ---------------------------------------------------------- domain models

Candidate(iri, label, score) == [iri |-> iri, label |-> label, score |-> score]

\* mutant: the candidates are stored in reverse order
MentionCandidates_reversed(surface, candidates) ==
    [surface |-> surface,
     candidates |-> [i \in 1..Len(candidates) |-> candidates[Len(candidates) + 1 - i]]]

MentionCandidates(surface, candidates) == [surface |-> surface, candidates |-> candidates]

PathStep(subject_iri, subject_label, predicate, object_iri, object_label) ==
    [subject_iri |-> subject_iri, subject_label |-> subject_label,
     predicate |-> predicate, object_iri |-> object_iri, object_label |-> object_label]

\* outcomes of a call: a returned value or a raised exception
Returned(v) == [kind |-> "return", value |-> v]
Raised(exc, msg) == [kind |-> "raise", exc |-> exc, msg |-> msg]

\* ------------------------------------------------- in-memory fallback graph

\* (subject, predicate, target iri, target label) tuples a fallback graph is drawn from
FallbackEdgePool ==
    << <<"c1", "related",  "c2", <<"N", "e">> >>,
       <<"c2", "related",  "c1", <<"G", "t">> >>,
       <<"c4", "related",  "c1", <<"G", "t">> >>,
       <<"c2", "broader",  "c3", <<"g", "n">> >>,
       <<"c3", "narrower", "c1", <<"g", "T">> >>,
       <<"c3", "related",  "c3", <<"g", "n">> >>,
       <<"c1", "broader",  "c3", <<"g", "n">> >> >>

FallbackKeyOrder == <<"c1", "c2", "c3", "c4">>

\* the dict built from the pool entries `chosen`, with the keys `keys`
\* (dict order = FallbackKeyOrder; relations in pool order)
FallbackGraph(keys, chosen) ==
    LET idx == SelectSeq([i \in 1..Len(FallbackEdgePool) |-> i], LAMBDA i : i \in chosen)
        present == SelectSeq(FallbackKeyOrder, LAMBDA k : k \in keys)
        rels(k) == LET mine == SelectSeq(idx, LAMBDA i : FallbackEdgePool[i][1] = k)
                   IN [j \in 1..Len(mine) |->
                         <<FallbackEdgePool[mine[j]][2], FallbackEdgePool[mine[j]][3],
                           FallbackEdgePool[mine[j]][4]>>]
    IN [j \in 1..Len(present) |-> [iri |-> present[j], relations |-> rels(present[j])]]

\* every relation list hangs under its subject's key; other keys are optional
FallbackGraphs ==
    { FallbackGraph(keys, chosen) :
        keys \in SUBSET Iris,
        chosen \in SUBSET (1..Min(NumFallbackEdges, Len(FallbackEdgePool))) }

\* `iri in self.fallback_graph`
GraphHasKey(graph, iri) == \E i \in 1..Len(graph) : graph[i].iri = iri

\* `self.fallback_graph.get(iri, [])`
GraphGet(graph, iri) ==
    IF GraphHasKey(graph, iri)
    THEN graph[CHOOSE i \in 1..Len(graph) : graph[i].iri = iri].relations
    ELSE <<>>

\* the BFS loop of _shortest_path_fallback: queue of (current, path), visited set
RECURSIVE bfs_loop(_, _, _, _, _)
bfs_loop(graph, queue, visited, target_iri, max_hops) ==
    IF queue = <<>> THEN Returned(None)
    ELSE LET current == Head(queue)[1]
             path == Head(queue)[2]
             rest == Tail(queue)
         IN IF Len(path) > max_hops THEN bfs_loop(graph, rest, visited, target_iri, max_hops)
            ELSE IF current = target_iri THEN Returned(Some(path))
            ELSE IF current \in visited THEN bfs_loop(graph, rest, visited, target_iri, max_hops)
            ELSE LET rels == GraphGet(graph, current)
                     ext == [i \in 1..Len(rels) |->
                               <<rels[i][2],
                                 Append(path, PathStep(current, None, rels[i][1],
                                                       rels[i][2], Some(rels[i][3])))>>]
                 IN bfs_loop(graph, rest \o ext, visited \cup {current}, target_iri, max_hops)

\* mutant: the hop bound is off by one
shortest_path_fallback_extra_hop(graph, source_iri, target_iri, max_hops) ==
    IF ~GraphHasKey(graph, source_iri) \/ ~GraphHasKey(graph, target_iri)
    THEN Returned(None)
    ELSE bfs_loop(graph, << <<source_iri, <<>> >> >>, {}, target_iri, max_hops + 1)

\* mutant: the membership test on the two identifiers is missing
shortest_path_fallback_no_key_check(graph, source_iri, target_iri, max_hops) ==
    bfs_loop(graph, << <<source_iri, <<>> >> >>, {}, target_iri, max_hops)

shortest_path_fallback(graph, source_iri, target_iri, max_hops) ==
    IF ~GraphHasKey(graph, source_iri) \/ ~GraphHasKey(graph, target_iri)
    THEN Returned(None)
    ELSE bfs_loop(graph, << <<source_iri, <<>> >> >>, {}, target_iri, max_hops)

\* `matches` of _search_candidates_fallback: every relation of every key, in dict order
RECURSIVE all_relations(_)
all_relations(graph) ==
    IF graph = <<>> THEN <<>> ELSE Head(graph).relations \o all_relations(Tail(graph))

\* mutant: the two lower() calls are missing
search_candidates_fallback_case_sensitive(graph, surface, limit) ==
    LET hits == SelectSeq(all_relations(graph), LAMBDA r : Contains(surface, r[3]))
        matches == [i \in 1..Len(hits) |-> Candidate(hits[i][2], hits[i][3], Some(10))]
    IN Returned(SubSeq(matches, 1, Min(limit, Len(matches))))

search_candidates_fallback(graph, surface, limit) ==
    LET hits == SelectSeq(all_relations(graph),
                          LAMBDA r : Contains(Lower(surface), Lower(r[3])))
        matches == [i \in 1..Len(hits) |-> Candidate(hits[i][2], hits[i][3], Some(10))]
    IN Returned(SubSeq(matches, 1, Min(limit, Len(matches))))

\* ------------------------------------------------------ remote graph backend

\* relationships the remote store is drawn from; SKOS_BROADER is the type the
\* import script creates
Neo4jEdgePool ==
    << [subject |-> "c1", type |-> "related",      object |-> "c2"],
       [subject |-> "c2", type |-> "broader",      object |-> "c3"],
       [subject |-> "c1", type |-> "related",      object |-> "c4"],
       [subject |-> "c4", type |-> "narrower",     object |-> "c3"],
       [subject |-> "c2", type |-> "SKOS_BROADER", object |-> "c4"],
       [subject |-> "c1", type |-> "broader",      object |-> "c3"],
       [subject |-> "c3", type |-> "related",      object |-> "c2"] >>

Neo4jGraphs ==
    SUBSET {Neo4jEdgePool[i] : i \in 1..Min(NumNeo4jEdges, Len(Neo4jEdgePool))}

\* nodes carrying a uri property (MERGE (c:Concept {uri: row.uri}))
Neo4jNodes == Iris

\* prefLabel property of a node, read by _label_from_node
label_from_node(node) ==
    CASE node = "c1" -> Some(<<"G", "t">>)
      [] node = "c2" -> Some(<<"N", "e">>)
      [] node = "c3" -> Some(<<"g", "n">>)
      [] OTHER -> None

\* relation types of the pattern [:broader|narrower|related*..hops]
TraversedTypes == {"broader", "narrower", "related"}

\* relationship types of the MERGE clauses of the import script
ImportedTypes == {"SKOS_BROADER", "SKOS_NARROWER"}

\* COUNT { (node)-[]-() }
NodeDegree(edges, node) ==
    Cardinality({e \in edges : e.subject = node \/ e.object = node})

\* undirected, relationship-unique walks of exactly k traversed edges from source
RECURSIVE Neo4jWalks(_, _, _)
Neo4jWalks(edges, source, k) ==
    IF k = 0 THEN {[nodes |-> <<source>>, rels |-> <<>>]}
    ELSE { [nodes |-> Append(w.nodes, IF e.subject = w.nodes[Len(w.nodes)]
                                      THEN e.object ELSE e.subject),
            rels |-> Append(w.rels, e)] :
             <<w, e>> \in { <<w, e>> \in Neo4jWalks(edges, source, k - 1) \X edges :
                              /\ e.type \in TraversedTypes
                              /\ \A i \in 1..Len(w.rels) : w.rels[i] # e
                              /\ w.nodes[Len(w.nodes)] \in {e.subject, e.object} } }

\* the rows of  MATCH p=shortestPath((source)-[...*..hops]-(target)): the walks of
\* minimal length 1..hops that end in target (the server returns one of them)
Neo4jShortest(edges, source, target, hops) ==
    LET ending(k) == {w \in Neo4jWalks(edges, source, k) : w.nodes[k + 1] = target}
        lens == {k \in 1..hops : ending(k) # {}}
    IN IF lens = {} THEN {}
       ELSE ending(CHOOSE k \in lens : \A j \in lens : k <= j)

\* mutant: the WHERE clause is missing
HubFilter_dropped(edges, walk, hub_threshold) == TRUE

\* WHERE $hub_threshold IS NULL OR ALL(deg IN degrees WHERE deg <= $hub_threshold)
HubFilter(edges, walk, hub_threshold) ==
    \/ hub_threshold = None
    \/ \A i \in 1..Len(walk.nodes) : NodeDegree(edges, walk.nodes[i]) <= hub_threshold[1]

\* the PathStep list built from the record's nodes and rels
Neo4jSteps(walk) ==
    [i \in 1..Len(walk.rels) |->
        PathStep(walk.nodes[i], label_from_node(walk.nodes[i]), walk.rels[i].type,
                 walk.nodes[i + 1], label_from_node(walk.nodes[i + 1]))]

\* mutant: the variable-length pattern allows one hop too many
shortest_path_neo4j_extra_hop(edges, up, source_iri, target_iri, max_hops, hub_threshold) ==
    LET rows == Neo4jShortest(edges, source_iri, target_iri, Max(1, max_hops) + 1)
    IN IF ~up THEN {Raised("ServiceUnavailable", "neo4j")}
       ELSE IF source_iri \notin Neo4jNodes \/ target_iri \notin Neo4jNodes \/ rows = {}
       THEN {Returned(None)}
       ELSE {Returned(Some(Neo4jSteps(w))) : w \in {x \in rows : HubFilter(edges, x, hub_threshold)}}
                \cup {Returned(None) : w \in {x \in rows : ~HubFilter(edges, x, hub_threshold)}}

\* the outcomes of _shortest_path_neo4j; `up` = the server answers the session
shortest_path_neo4j(edges, up, source_iri, target_iri, max_hops, hub_threshold) ==
    LET hops == Max(1, max_hops)
    IN IF ~up THEN {Raised("ServiceUnavailable", "neo4j")}
       ELSE IF source_iri \notin Neo4jNodes \/ target_iri \notin Neo4jNodes
       THEN {Returned(None)}
       ELSE IF source_iri = target_iri
       THEN {Raised("ClientError", "neo4j"), Returned(None)}
       ELSE LET rows == Neo4jShortest(edges, source_iri, target_iri, hops)
            IN IF rows = {} THEN {Returned(None)}
               ELSE { IF HubFilter(edges, w, hub_threshold)
                      THEN Returned(Some(Neo4jSteps(w)))
                      ELSE Returned(None) : w \in rows }

\* order in which the full-text index ranks the nodes (score descending)
Neo4jRanking == <<"c3", "c1", "c2", "c4">>

\* the outcomes of _search_candidates_neo4j
search_candidates_neo4j(up, surface, limit) ==
    LET hit(n) == /\ label_from_node(n) # None
                  /\ Contains(Lower(surface), Lower(label_from_node(n)[1]))
        ranked == SelectSeq(Neo4jRanking, hit)
        records == SubSeq(ranked, 1, Min(limit, Len(ranked)))
    IN IF ~up THEN {Raised("ServiceUnavailable", "neo4j")}
       ELSE {Returned([i \in 1..Len(records) |->
                         Candidate(records[i], label_from_node(records[i])[1],
                                   Some(10 - i))])}

\* ------------------------------------------------------- SkosGraphGateway

search_candidates(up, surface, limit) ==
    IF driver THEN search_candidates_neo4j(up, surface, limit)
    ELSE IF fallback_graph # None
    THEN {search_candidates_fallback(fallback_graph[1], surface, limit)}
    ELSE {Raised("RuntimeError", "No graph backend configured for candidate selection.")}

\* mutant: an unreachable server makes the call use the fallback graph
shortest_path_fallback_when_down(up, source_iri, target_iri, max_hops, hub_threshold) ==
    IF driver /\ (up \/ fallback_graph = None)
    THEN shortest_path_neo4j(neo4j_edges, up, source_iri, target_iri, max_hops, hub_threshold)
    ELSE IF fallback_graph # None
    THEN {shortest_path_fallback(fallback_graph[1], source_iri, target_iri, max_hops)}
    ELSE {Returned(None)}

shortest_path(up, source_iri, target_iri, max_hops, hub_threshold) ==
    IF driver
    THEN shortest_path_neo4j(neo4j_edges, up, source_iri, target_iri, max_hops, hub_threshold)
    ELSE IF fallback_graph # None
    THEN {shortest_path_fallback(fallback_graph[1], source_iri, target_iri, max_hops)}
    ELSE {Returned(None)}

\* the gateways a process can construct
GatewayInit ==
    /\ driver \in BOOLEAN
    /\ fallback_graph \in {None} \cup {Some(g) : g \in FallbackGraphs}
    /\ neo4j_edges \in Neo4jGraphs
    /\ driver => fallback_graph \in {None, Some(FallbackGraph(Iris, {1, 2}))}
    /\ ~driver => neo4j_edges = {}

Surfaces == {<<"g">>, <<"N">>, <<"x">>, <<>>, <<"G", "T">>}
HubThresholds == {None} \cup {Some(k) : k \in 1..MaxHubThreshold}

\* ------------------------------------------ direct calls on the gateway

NoCall == [op |-> "none"]

RequestIdle ==
    /\ pc = "idle"
    /\ request = None
    /\ mentions = <<>>
    /\ candidate_selections = <<>>
    /\ qi = 0
    /\ paths = <<>>
    /\ path_sentences = <<>>
    /\ summary_text = <<>>
    /\ decisions = <<>>
    /\ generation = None
    /\ calls = <<>>
    /\ error = None
    /\ http_status = None
    /\ idempotence_key = None

\* one request at a time, against a live text-generation model
OneRequest ==
    /\ stub = None
    /\ parked = None

CallShortestPath ==
    /\ ret = NoCall
    /\ \E up \in BOOLEAN, s \in Iris \cup {UnknownIri}, t \in Iris \cup {UnknownIri},
       h \in 1..MaxHops, thr \in HubThresholds :
        \E o \in shortest_path(up, s, t, h, thr) :
            /\ ret' = [op |-> "shortest_path", up |-> up, source_iri |-> s,
                       target_iri |-> t, max_hops |-> h, hub_threshold |-> thr,
                       outcome |-> o]
            /\ UNCHANGED <<gateway_vars, service_vars, request_vars, worker_vars>>

CallSearchCandidates ==
    /\ ret = NoCall
    /\ \E up \in BOOLEAN, surface \in Surfaces, limit \in 1..MaxTopK :
        \E o \in search_candidates(up, surface, limit) :
            /\ ret' = [op |-> "search_candidates", up |-> up, surface |-> surface,
                       limit |-> limit, outcome |-> o]
            /\ UNCHANGED <<gateway_vars, service_vars, request_vars, worker_vars>>

GatewayNext == CallShortestPath \/ CallSearchCandidates

GatewaySpecInit ==
    /\ GatewayInit
    /\ ret = NoCall
    /\ ollama_client = TRUE
    /\ graph_gateway = TRUE
    /\ RequestIdle
    /\ OneRequest

SpecGateway == GatewaySpecInit /\ [][GatewayNext]_vars

\* ------------------------------------------------- text-generation responses

\* A response text is kept by the two things the code asks of it: whether it is
\* the empty string, and what json.loads makes of it (None = not JSON).
EmptyText == [empty |-> TRUE, json |-> None]
InvalidText == [empty |-> FALSE, json |-> None]
JsonText(v) == [empty |-> FALSE, json |-> Some(v)]

JNull == [type |-> "null"]
JNumber == [type |-> "number"]
JString == [type |-> "string"]
JList(items) == [type |-> "list", items |-> items]
JObject(fields) == [type |-> "object", fields |-> fields]

\* truthiness of `generation.get("response")` for a JSON-bearing text
Truthy(response) == response # None /\ ~response[1].empty

\* json.loads
json_loads(text) ==
    IF text.json = None THEN Raised("JSONDecodeError", "") ELSE Returned(text.json[1])

\* dict.get(key) -> Optional
dict_get(obj, key) == IF key \in DOMAIN obj.fields THEN Some(obj.fields[key]) ELSE None

\* str.strip() on the characters " " and letters
RECURSIVE lstrip(_)
lstrip(str) == IF str # <<>> /\ Head(str) = " " THEN lstrip(Tail(str)) ELSE str
RECURSIVE rstrip(_)
rstrip(str) ==
    IF str # <<>> /\ str[Len(str)] = " " THEN rstrip(SubSeq(str, 1, Len(str) - 1)) ELSE str
strip(str) == rstrip(lstrip(str))

\* OllamaClient.generate: a transport error or a generation dict
GenerateOutcomes(responses) ==
    {Raised("RequestException", "transport")}
        \cup {Returned([response |-> r]) : r \in responses}

\* --------------------------------------------------- KnowledgeGraphService

Mention(surface, label, start, end, confidence) ==
    [surface |-> surface, label |-> label, start |-> start, end |-> end,
     confidence |-> confidence]

PathEvidence(ps, summary) == [paths |-> ps, summary |-> summary]

\* mutant: each mention keeps only the paths that start at its chosen candidate
DisambiguatedMention_own_paths(mention, chosen, evidence) ==
    [surface |-> mention.surface, label |-> mention.label, start |-> mention.start,
     end |-> mention.end, confidence |-> mention.confidence,
     chosen |-> chosen,
     evidence |-> [paths |-> SelectSeq(evidence.paths,
                                LAMBDA p : chosen # None /\ p[1].subject_iri = chosen[1].iri),
                   summary |-> evidence.summary]]

DisambiguatedMention(mention, chosen, evidence) ==
    [surface |-> mention.surface, label |-> mention.label, start |-> mention.start,
     end |-> mention.end, confidence |-> mention.confidence,
     chosen |-> chosen, evidence |-> evidence]

\* `x or default` on an Optional field
OrElse(opt, default) == IF opt = None THEN default ELSE opt[1]

\* the parsing half of _extract_mentions
extract_mentions(response) ==
    LET payload == IF Truthy(response) THEN response[1] ELSE JsonText(JObject(<<>>))
        loaded == json_loads(payload)
        data == loaded.value
        items == OrElse(dict_get(data, "mentions"), <<>>)
    IN IF loaded.kind = "raise"
       THEN Raised("ValueError", "NER stage returned invalid JSON.")
       ELSE IF data.type # "object" THEN Raised("AttributeError", "get")
       ELSE Returned([i \in 1..Len(items) |->
                Mention(OrElse(dict_get(items[i], "surface"), <<>>),
                        dict_get(items[i], "label"), dict_get(items[i], "start"),
                        dict_get(items[i], "end"), dict_get(items[i], "confidence"))])

RECURSIVE ConcatAll(_)
ConcatAll(seqs) == IF seqs = <<>> THEN <<>> ELSE Head(seqs) \o ConcatAll(Tail(seqs))

Query(source, target) == [source |-> source, target |-> target]

\* mutant: each pair of mentions is visited once instead of in both orders
PathQueries_unordered(selections) ==
    LET cross(idx, candidate) ==
            ConcatAll([other_idx \in 1..Len(selections) |->
                IF idx >= other_idx THEN <<>>
                ELSE [j \in 1..Len(selections[other_idx].candidates) |->
                        Query(candidate.iri, selections[other_idx].candidates[j].iri)]])
        intra(idx, candidate) ==
            LET others == SelectSeq(selections[idx].candidates,
                                    LAMBDA other : other.iri # candidate.iri)
            IN [j \in 1..Len(others) |-> Query(candidate.iri, others[j].iri)]
        of_mention(idx) ==
            ConcatAll([c \in 1..Len(selections[idx].candidates) |->
                cross(idx, selections[idx].candidates[c])
                    \o intra(idx, selections[idx].candidates[c])])
    IN ConcatAll([idx \in 1..Len(selections) |-> of_mention(idx)])

\* the shortest_path calls of _compute_paths, in the order the loops issue them
PathQueries(selections) ==
    LET cross(idx, candidate) ==
            ConcatAll([other_idx \in 1..Len(selections) |->
                IF idx = other_idx THEN <<>>
                ELSE [j \in 1..Len(selections[other_idx].candidates) |->
                        Query(candidate.iri, selections[other_idx].candidates[j].iri)]])
        intra(idx, candidate) ==
            LET others == SelectSeq(selections[idx].candidates,
                                    LAMBDA other : other.iri # candidate.iri)
            IN [j \in 1..Len(others) |-> Query(candidate.iri, others[j].iri)]
        of_mention(idx) ==
            ConcatAll([c \in 1..Len(selections[idx].candidates) |->
                cross(idx, selections[idx].candidates[c])
                    \o intra(idx, selections[idx].candidates[c])])
    IN ConcatAll([idx \in 1..Len(selections) |-> of_mention(idx)])

\* mutant: the isinstance(path_sentences, list) test is missing
paths_to_text_any_json(response) ==
    LET response_text == IF Truthy(response) THEN response[1] ELSE JsonText(JList(<<>>))
        loaded == json_loads(response_text)
    IN IF loaded.kind = "raise"
       THEN Raised("ValueError", "Path translation stage returned invalid JSON.")
       ELSE Returned(IF loaded.value.type = "list" THEN loaded.value.items ELSE <<>>)

\* the parsing half of _paths_to_text
paths_to_text(response) ==
    LET response_text == IF Truthy(response) THEN response[1] ELSE JsonText(JList(<<>>))
        loaded == json_loads(response_text)
    IN IF loaded.kind = "raise" \/ loaded.value.type # "list"
       THEN Raised("ValueError", "Path translation stage returned invalid JSON.")
       ELSE Returned(loaded.value.items)

\* mutant: the summary is used as the model returned it
summarize_paths_untrimmed(response) == OrElse(response, <<>>)

\* `summary = generation.get("response") or ""; summary.strip()`
summarize_paths(response) == strip(OrElse(response, <<>>))

\* _parse_decision
parse_decision(response_text, selection) ==
    LET first == IF selection.candidates # <<>> THEN Some(selection.candidates[1]) ELSE None
        loaded == json_loads(response_text[1])
        data == loaded.value
        iri == dict_get(data, "iri")
        label == dict_get(data, "label")
        falsy_iri == iri = None \/ iri[1] = ""
    IN IF ~Truthy(response_text) THEN Returned(first)
       ELSE IF loaded.kind = "raise" THEN Returned(first)
       ELSE IF data.type # "object" THEN Raised("AttributeError", "get")
       ELSE IF falsy_iri /\ selection.candidates # <<>> THEN Returned(first)
       ELSE Returned(Some(Candidate(OrElse(iri, NoneIri), OrElse(label, <<>>),
                                    dict_get(data, "score"))))

\* _extract_context
Window == 80
\* Python's text[lo:hi]: a negative index counts from the end, and both
\* indices are clipped to the text
SliceIndex(text, i) == IF i < 0 THEN Max(0, Len(text) + i) ELSE Min(i, Len(text))
Slice(text, lo, hi) == SubSeq(text, SliceIndex(text, lo) + 1, SliceIndex(text, hi))

\* mutant: the left edge of the window is not clipped at the start of the text
extract_context_unclipped(text, start, end) ==
    IF start = None \/ end = None
    THEN Slice(text, 0, Window * 2)
    ELSE Slice(text, start[1] - Window, Min(Len(text), end[1] + Window))

extract_context(text, start, end) ==
    IF start = None \/ end = None
    THEN Slice(text, 0, Window * 2)
    ELSE Slice(text, Max(0, start[1] - Window), Min(Len(text), end[1] + Window))

\* The message sent to the model at each stage: the stage's template, kept by
\* its name, with the values put in place of its placeholders.
ner_prompt(text) == [prompt_name |-> "ner", USER_TEXT |-> text]

path_to_text_prompt(ps) == [prompt_name |-> "path_to_text", PATHS_JSON |-> ps]

path_summary_prompt(sentences) ==
    [prompt_name |-> "path_summary", PATH_SENTENCES_JSON |-> sentences]

\* mutant: the idempotence key of the request is written into the message
candidate_decision_prompt_with_key(text, mention, selection, summary) ==
    [prompt_name |-> "candidate_decision",
     SURFACE |-> mention.surface,
     CONTEXT |-> extract_context(text, mention.start, mention.end),
     SUMMARY |-> summary,
     CANDIDATES_JSON |-> selection.candidates,
     KEY |-> idempotence_key]

candidate_decision_prompt(text, mention, selection, summary) ==
    [prompt_name |-> "candidate_decision",
     SURFACE |-> mention.surface,
     CONTEXT |-> extract_context(text, mention.start, mention.end),
     SUMMARY |-> summary,
     CANDIDATES_JSON |-> selection.candidates]

\* ollama_client.generate(prompt): a live model may answer anything each time;
\* a deterministic stub repeats the answer it gave to an equal prompt
\* (`canned` = what the stub answers to a prompt it sees for the first time)
Generate(prompt, responses, canned) ==
    IF stub = None THEN GenerateOutcomes(responses)
    ELSE IF prompt \in DOMAIN stub[1] THEN {stub[1][prompt]}
    ELSE {Returned([response |-> r]) : r \in canned}

\* the stub after it answered `prompt` with `g`
Answered(prompt, g) ==
    IF stub = None THEN None ELSE Some((prompt :> g) @@ stub[1])

\* str(uuid4()): a key no other request has
Keys == {"k1", "k2"}
NewKey == CHOOSE k \in Keys : parked = None \/ parked[1].idempotence_key # Some(k)

\* the status the controller answers for an exception of service.analyze
\* (an exception it does not catch becomes the framework's 500)
StatusOf(exc) ==
    CASE exc = "FileNotFoundError" -> 404
      [] exc = "RequestException" -> 502
      [] exc = "RuntimeError" -> 502
      [] exc = "ValueError" -> 400
      [] OTHER -> 500

\* ------------------------------------------------------ POST /analyze

\* what the text-generation model may answer at each stage
NerItem(surface) ==
    JObject([surface |-> surface, label |-> <<"F">>, start |-> 0, end |-> 1, confidence |-> 9])

NerMentionLists ==
    { <<>>,
      <<NerItem(<<"t">>)>>,
      <<NerItem(<<"x">>)>>,
      <<NerItem(<<"t">>), NerItem(<<"e">>)>>,
      <<NerItem(<<"G">>), NerItem(<<"N">>)>>,
      <<NerItem(<<"G">>), JObject([surface |-> <<"x">>])>>,
      <<NerItem(<<"t">>), NerItem(<<"e">>), NerItem(<<"t">>)>> }

NerResponses ==
    {None, Some(InvalidText), Some(JsonText(JList(<<>>)))}
        \cup {Some(JsonText(JObject([mentions |-> l]))) : l \in NerMentionLists}

PathToTextResponses ==
    {None, Some(EmptyText), Some(InvalidText), Some(JsonText(JNumber)),
     Some(JsonText(JObject(<<>>))), Some(JsonText(JList(<<>>))),
     Some(JsonText(JList(<< <<"s">> >>)))}

SummaryResponses ==
    {None, Some(<<>>), Some(<<" ">>), Some(<<" ", "s", " ">>), Some(<<"s">>)}

DecisionResponses ==
    {None, Some(EmptyText), Some(InvalidText), Some(JsonText(JNull)),
     Some(JsonText(JList(<<>>))), Some(JsonText(JObject(<<>>))),
     Some(JsonText(JObject([label |-> <<"L">>]))),
     Some(JsonText(JObject([iri |-> ""]))),
     Some(JsonText(JObject([iri |-> "c1", label |-> <<"G", "t">>, score |-> 9]))),
     Some(JsonText(JObject([iri |-> "zz", label |-> <<"Z">>])))}

\* what a deterministic stub of the model may answer (a subset of the above)
StubNerResponses ==
    {Some(JsonText(JObject([mentions |-> <<NerItem(<<"t">>), NerItem(<<"e">>)>>]))),
     Some(JsonText(JObject([mentions |-> <<NerItem(<<"G">>), JObject([surface |-> <<"x">>])>>])))}

StubPathToTextResponses == {Some(InvalidText), Some(JsonText(JList(<< <<"s">> >>)))}

StubSummaryResponses == {None, Some(<<" ", "s", " ">>)}

StubDecisionResponses ==
    {None, Some(JsonText(JList(<<>>))),
     Some(JsonText(JObject([iri |-> "c1", label |-> <<"G", "t">>, score |-> 9])))}

RequestText == <<"t", " ", "e">>

AnalyzeRequest(text, top_k, max_hops, hub_threshold) ==
    [text |-> text, top_k |-> top_k, max_hops |-> max_hops, hub_threshold |-> hub_threshold]

\* the gateways the request pipeline is run against
\* (keys, chosen entries of FallbackEdgePool) / entries of Neo4jEdgePool
PipelineFallbackGraphs ==
    { FallbackGraph(Iris, {1, 2}),
      FallbackGraph({"c1", "c2", "c4"}, {1, 3}),
      FallbackGraph({"c1", "c4"}, {1, 3}),
      FallbackGraph(Iris, {1, 2, 4, 5}),
      FallbackGraph(Iris, {2, 3}),
      FallbackGraph({}, {}) }

PipelineNeo4jGraphs ==
    { {Neo4jEdgePool[1]},
      {Neo4jEdgePool[1], Neo4jEdgePool[2]},
      {Neo4jEdgePool[1], Neo4jEdgePool[2], Neo4jEdgePool[3], Neo4jEdgePool[4]},
      {Neo4jEdgePool[2], Neo4jEdgePool[5]} }

PipelineGatewayInit ==
    \/ /\ driver = TRUE
       /\ fallback_graph \in {None, Some(FallbackGraph(Iris, {1, 2}))}
       /\ neo4j_edges \in PipelineNeo4jGraphs
    \/ /\ driver = FALSE
       /\ fallback_graph \in {None} \cup {Some(g) : g \in PipelineFallbackGraphs}
       /\ neo4j_edges = {}

\* the service as create_app or a test wires it
ServiceInit ==
    /\ ollama_client \in BOOLEAN
    /\ graph_gateway \in BOOLEAN
    /\ (~ollama_client \/ ~graph_gateway) =>
          (driver = FALSE /\ fallback_graph = None)

Init ==
    /\ PipelineGatewayInit
    /\ ServiceInit
    /\ ret = NoCall
    /\ RequestIdle
    /\ OneRequest

Call(op, args) == [op |-> op, args |-> args]

\* the request ends with exception `exc`; the controller maps it to a status
Fail(exc) ==
    /\ pc' = "failed"
    /\ error' = Some(exc)
    /\ http_status' = Some(StatusOf(exc.exc))

\* controller builds the AnalyzeRequest; analyze checks its collaborators and
\* loads the system and NER prompts
PostAnalyze ==
    /\ pc = "idle"
    /\ \E top_k \in 1..MaxTopK, max_hops \in 1..MaxHops, hub_threshold \in HubThresholds :
          \* (the runs against a stub leave out hub_threshold, which the
          \*  in-memory graph does not read)
          /\ stub # None => hub_threshold = None
          /\ request' = Some(AnalyzeRequest(RequestText, top_k, max_hops, hub_threshold))
    /\ idempotence_key' = Some(NewKey)
    /\ IF ~ollama_client
       THEN /\ Fail(Raised("RuntimeError", "LLM client is not configured."))
            /\ UNCHANGED calls
       ELSE IF ~graph_gateway
       THEN /\ Fail(Raised("RuntimeError", "Graph gateway is not configured."))
            /\ UNCHANGED calls
       ELSE /\ pc' = "ner"
            /\ calls' = calls \o <<Call("load_prompt", "system"), Call("load_prompt", "ner")>>
            /\ UNCHANGED <<error, http_status>>
    /\ UNCHANGED <<gateway_vars, service_vars, worker_vars, ret, mentions,
                   candidate_selections, qi, paths, path_sentences, summary_text,
                   decisions, generation>>

\* mutant: a transport error of the NER call is answered by calling again
ExtractMentions_retry ==
    /\ pc = "ner"
    /\ \E g \in Generate(ner_prompt(request[1].text), NerResponses, StubNerResponses) :
          /\ generation' = Some(g)
          /\ stub' = Answered(ner_prompt(request[1].text), g)
          /\ calls' = Append(calls, Call("generate", "ner"))
          /\ IF g.kind = "raise"
             THEN UNCHANGED <<pc, error, http_status, mentions>>
             ELSE LET parsed == extract_mentions(g.value.response)
                  IN IF parsed.kind = "raise"
                     THEN Fail(parsed) /\ UNCHANGED mentions
                     ELSE /\ mentions' = parsed.value
                          /\ pc' = "select"
                          /\ UNCHANGED <<error, http_status>>
    /\ UNCHANGED <<gateway_vars, service_vars, parked, ret, idempotence_key, request,
                   candidate_selections, qi, paths, path_sentences, summary_text,
                   decisions>>

\* _extract_mentions: one generate call, then the parse
ExtractMentions ==
    /\ pc = "ner"
    /\ \E g \in Generate(ner_prompt(request[1].text), NerResponses, StubNerResponses) :
          /\ generation' = Some(g)
          /\ stub' = Answered(ner_prompt(request[1].text), g)
          /\ calls' = Append(calls, Call("generate", "ner"))
          /\ IF g.kind = "raise"
             THEN Fail(g) /\ UNCHANGED mentions
             ELSE LET parsed == extract_mentions(g.value.response)
                  IN IF parsed.kind = "raise"
                     THEN Fail(parsed) /\ UNCHANGED mentions
                     ELSE /\ mentions' = parsed.value
                          /\ pc' = "select"
                          /\ UNCHANGED <<error, http_status>>
    /\ UNCHANGED <<gateway_vars, service_vars, parked, ret, idempotence_key, request,
                   candidate_selections, qi, paths, path_sentences, summary_text,
                   decisions>>

\* one iteration of the loop of _select_candidates
SelectCandidate ==
    /\ pc = "select"
    /\ Len(candidate_selections) < Len(mentions)
    /\ LET mention == mentions[Len(candidate_selections) + 1]
       IN \E up \in BOOLEAN :
            \E o \in search_candidates(up, mention.surface, request[1].top_k) :
               /\ calls' = Append(calls, Call("search_candidates",
                                   [surface |-> mention.surface, limit |-> request[1].top_k]))
               /\ IF o.kind = "raise"
                  THEN Fail(o) /\ UNCHANGED candidate_selections
                  ELSE /\ candidate_selections' =
                              Append(candidate_selections,
                                     MentionCandidates(mention.surface, o.value))
                       /\ UNCHANGED <<pc, error, http_status>>
    /\ UNCHANGED <<gateway_vars, service_vars, worker_vars, ret, idempotence_key,
                   request, mentions, qi, paths, path_sentences, summary_text,
                   decisions, generation>>

\* _select_candidates returns
SelectDone ==
    /\ pc = "select"
    /\ Len(candidate_selections) = Len(mentions)
    /\ pc' = "paths"
    /\ UNCHANGED <<gateway_vars, service_vars, worker_vars, ret, idempotence_key,
                   request, mentions, candidate_selections, qi, paths, path_sentences,
                   summary_text, decisions, generation, calls, error, http_status>>

\* one shortest_path call of _compute_paths and what the loop does with its result
PathQuery ==
    /\ pc = "paths"
    /\ qi < Len(PathQueries(candidate_selections))
    /\ LET q == PathQueries(candidate_selections)[qi + 1]
       IN \E up \in BOOLEAN :
            \E o \in shortest_path(up, q.source, q.target, request[1].max_hops,
                                   request[1].hub_threshold) :
               /\ calls' = Append(calls, Call("shortest_path",
                                   [source |-> q.source, target |-> q.target,
                                    max_hops |-> request[1].max_hops,
                                    hub_threshold |-> request[1].hub_threshold]))
               /\ qi' = qi + 1
               /\ IF o.kind = "raise"
                  THEN Fail(o) /\ UNCHANGED paths
                  ELSE /\ paths' = IF o.value # None /\ o.value[1] # <<>>
                                   THEN Append(paths, o.value[1]) ELSE paths
                       /\ UNCHANGED <<pc, error, http_status>>
    /\ UNCHANGED <<gateway_vars, service_vars, worker_vars, ret, idempotence_key,
                   request, mentions, candidate_selections, path_sentences, summary_text,
                   decisions, generation>>

\* _compute_paths returns
PathsDone ==
    /\ pc = "paths"
    /\ qi = Len(PathQueries(candidate_selections))
    /\ pc' = "p2t"
    /\ UNCHANGED <<gateway_vars, service_vars, worker_vars, ret, idempotence_key,
                   request, mentions, candidate_selections, qi, paths, path_sentences,
                   summary_text, decisions, generation, calls, error, http_status>>

\* _paths_to_text
PathsToText ==
    /\ pc = "p2t"
    /\ IF paths = <<>>
       THEN /\ path_sentences' = <<>>
            /\ pc' = "summary"
            /\ UNCHANGED <<generation, calls, error, http_status, stub>>
       ELSE \E g \in Generate(path_to_text_prompt(paths), PathToTextResponses,
                                StubPathToTextResponses) :
              /\ generation' = Some(g)
              /\ stub' = Answered(path_to_text_prompt(paths), g)
              /\ calls' = calls \o <<Call("load_prompt", "path_to_text"),
                                     Call("generate", "path_to_text")>>
              /\ IF g.kind = "raise"
                 THEN Fail(g) /\ UNCHANGED path_sentences
                 ELSE LET parsed == paths_to_text(g.value.response)
                      IN IF parsed.kind = "raise"
                         THEN Fail(parsed) /\ UNCHANGED path_sentences
                         ELSE /\ path_sentences' = parsed.value
                              /\ pc' = "summary"
                              /\ UNCHANGED <<error, http_status>>
    /\ UNCHANGED <<gateway_vars, service_vars, parked, ret, idempotence_key, request,
                   mentions, candidate_selections, qi, paths, summary_text, decisions>>

\* _summarize_paths, then _decide_candidates up to its loop (loads the decision prompt)
SummarizePaths ==
    /\ pc = "summary"
    /\ IF path_sentences = <<>>
       THEN /\ summary_text' = <<>>
            /\ pc' = "decide"
            /\ calls' = Append(calls, Call("load_prompt", "decision"))
            /\ UNCHANGED <<generation, error, http_status, stub>>
       ELSE \E g \in Generate(path_summary_prompt(path_sentences), SummaryResponses,
                                StubSummaryResponses) :
              /\ generation' = Some(g)
              /\ stub' = Answered(path_summary_prompt(path_sentences), g)
              /\ IF g.kind = "raise"
                 THEN /\ Fail(g)
                      /\ calls' = calls \o <<Call("load_prompt", "path_summary"),
                                             Call("generate", "path_summary")>>
                      /\ UNCHANGED summary_text
                 ELSE /\ summary_text' = summarize_paths(g.value.response)
                      /\ pc' = "decide"
                      /\ calls' = calls \o <<Call("load_prompt", "path_summary"),
                                             Call("generate", "path_summary"),
                                             Call("load_prompt", "decision")>>
                      /\ UNCHANGED <<error, http_status>>
    /\ UNCHANGED <<gateway_vars, service_vars, parked, ret, idempotence_key, request,
                   mentions, candidate_selections, qi, paths, path_sentences, decisions>>

\* one iteration of the loop of _decide_candidates
DecideCandidate ==
    /\ pc = "decide"
    /\ Len(decisions) < Min(Len(mentions), Len(candidate_selections))
    /\ LET i == Len(decisions) + 1
           message == candidate_decision_prompt(request[1].text, mentions[i],
                                                candidate_selections[i], summary_text)
       IN \E g \in Generate(message, DecisionResponses, StubDecisionResponses) :
            /\ generation' = Some(g)
            /\ stub' = Answered(message, g)
            /\ calls' = Append(calls, Call("generate", "candidate_decision"))
            /\ IF g.kind = "raise"
               THEN Fail(g) /\ UNCHANGED decisions
               ELSE LET chosen == parse_decision(g.value.response, candidate_selections[i])
                    IN IF chosen.kind = "raise"
                       THEN Fail(chosen) /\ UNCHANGED decisions
                       ELSE /\ decisions' =
                                 Append(decisions,
                                        DisambiguatedMention(mentions[i], chosen.value,
                                            PathEvidence(paths,
                                                IF summary_text = <<>> THEN None
                                                ELSE Some(summary_text))))
                            /\ UNCHANGED <<pc, error, http_status>>
    /\ UNCHANGED <<gateway_vars, service_vars, parked, ret, idempotence_key, request,
                   mentions, candidate_selections, qi, paths, path_sentences,
                   summary_text>>

\* _decide_candidates returns; the RDF is built and the controller answers 200
DecideDone ==
    /\ pc = "decide"
    /\ Len(decisions) = Min(Len(mentions), Len(candidate_selections))
    /\ pc' = "done"
    /\ http_status' = Some(200)
    /\ UNCHANGED <<gateway_vars, service_vars, worker_vars, ret, idempotence_key,
                   request, mentions, candidate_selections, qi, paths, path_sentences,
                   summary_text, decisions, generation, calls, error>>

Next ==
    \/ PostAnalyze
    \/ ExtractMentions
    \/ SelectCandidate
    \/ SelectDone
    \/ PathQuery
    \/ PathsDone
    \/ PathsToText
    \/ SummarizePaths
    \/ DecideCandidate
    \/ DecideDone

Spec == Init /\ [][Next]_vars

\* ------------------------------------------- two requests in flight at once

\* mutant: the evidence list is kept on the service (self.paths) instead of
\* in a local variable
Locals_paths_on_service ==
    {"request", "mentions", "candidate_selections", "qi", "path_sentences",
     "summary_text", "decisions", "generation", "calls", "error", "http_status",
     "idempotence_key"}

\* The names analyze and its helpers assign are all local variables of the
\* call; no statement of a request assigns an attribute of the service.
Locals ==
    {"request", "mentions", "candidate_selections", "qi", "paths", "path_sentences",
     "summary_text", "decisions", "generation", "calls", "error", "http_status",
     "idempotence_key"}

\* the local variables of the running request
Frame ==
    [pc |-> pc, request |-> request, mentions |-> mentions,
     candidate_selections |-> candidate_selections, qi |-> qi, paths |-> paths,
     path_sentences |-> path_sentences, summary_text |-> summary_text,
     decisions |-> decisions, generation |-> generation, calls |-> calls,
     error |-> error, http_status |-> http_status, idempotence_key |-> idempotence_key]

\* a request that has not been posted yet
IdleFrame ==
    [pc |-> "idle", request |-> None, mentions |-> <<>>, candidate_selections |-> <<>>,
     qi |-> 0, paths |-> <<>>, path_sentences |-> <<>>, summary_text |-> <<>>,
     decisions |-> <<>>, generation |-> None, calls |-> <<>>, error |-> None,
     http_status |-> None, idempotence_key |-> None]

\* what the resumed request finds under `name`: its own value when the name is
\* a local, the value last written by any request otherwise
Resumed(name, current) == IF name \in Locals THEN parked[1][name] ELSE current

\* the server leaves the running request and resumes the other one
Switch ==
    /\ parked # None
    /\ parked[1].pc \notin {"done", "failed"}
    /\ parked' = Some(Frame)
    /\ pc' = parked[1].pc
    /\ request' = Resumed("request", request)
    /\ mentions' = Resumed("mentions", mentions)
    /\ candidate_selections' = Resumed("candidate_selections", candidate_selections)
    /\ qi' = Resumed("qi", qi)
    /\ paths' = Resumed("paths", paths)
    /\ path_sentences' = Resumed("path_sentences", path_sentences)
    /\ summary_text' = Resumed("summary_text", summary_text)
    /\ decisions' = Resumed("decisions", decisions)
    /\ generation' = Resumed("generation", generation)
    /\ calls' = Resumed("calls", calls)
    /\ error' = Resumed("error", error)
    /\ http_status' = Resumed("http_status", http_status)
    /\ idempotence_key' = Resumed("idempotence_key", idempotence_key)
    /\ UNCHANGED <<gateway_vars, service_vars, ret, stub>>

\* the in-memory graphs the two requests are run against
ConcurrentFallbackGraphs ==
    { FallbackGraph(Iris, {1, 2}),
      FallbackGraph(Iris, {1, 2, 4, 5}) }

\* a service on the in-memory graph with a deterministic stub as its
\* text-generation collaborator, and two requests to come
ConcurrentInit ==
    /\ driver = FALSE
    /\ fallback_graph \in {Some(g) : g \in ConcurrentFallbackGraphs}
    /\ neo4j_edges = {}
    /\ ollama_client = TRUE
    /\ graph_gateway = TRUE
    /\ ret = NoCall
    /\ RequestIdle
    /\ stub = Some(<<>>)
    /\ parked = Some(IdleFrame)

ConcurrentNext ==
    \/ PostAnalyze
    \/ ExtractMentions
    \/ SelectCandidate
    \/ SelectDone
    \/ PathQuery
    \/ PathsDone
    \/ PathsToText
    \/ SummarizePaths
    \/ DecideCandidate
    \/ DecideDone
    \/ Switch

SpecConcurrent == ConcurrentInit /\ [][ConcurrentNext]_vars

\* ------------------------------------------------ one request on its own

\* the answer the stub has for `prompt`
Ask(prompt) ==
    IF prompt \in DOMAIN stub[1] THEN stub[1][prompt] ELSE Raised("NotAsked", "")

\* the outcome of a gateway call on the in-memory graph
Only(outcomes) == CHOOSE o \in outcomes : TRUE

\* index of the first raised outcome of a list of outcomes (0 = none raised)
FirstRaised(outcomes) ==
    IF \E i \in 1..Len(outcomes) : outcomes[i].kind = "raise"
    THEN CHOOSE i \in 1..Len(outcomes) :
            /\ outcomes[i].kind = "raise"
            /\ \A j \in 1..(i - 1) : outcomes[j].kind # "raise"
    ELSE 0

AloneFailed(o) ==
    [pc |-> "failed", error |-> Some(o), candidate_selections |-> <<>>, paths |-> <<>>,
     decisions |-> <<>>]

AloneDone(selections, ps, ds) ==
    [pc |-> "done", error |-> None, candidate_selections |-> selections, paths |-> ps,
     decisions |-> ds]

\* analyze(req) run from start to end with no other request in flight, on the
\* in-memory graph and the stub as they are
analyze_alone(req) ==
    LET ner == Ask(ner_prompt(req.text))
        extracted == IF ner.kind = "raise" THEN ner ELSE extract_mentions(ner.value.response)
        ms == extracted.value
        found == [i \in 1..Len(ms) |->
                    Only(search_candidates(TRUE, ms[i].surface, req.top_k))]
        selections == [i \in 1..Len(ms) |-> MentionCandidates(ms[i].surface, found[i].value)]
        queries == PathQueries(selections)
        answers == [j \in 1..Len(queries) |->
                      Only(shortest_path(TRUE, queries[j].source, queries[j].target,
                                         req.max_hops, req.hub_threshold))]
        hits == SelectSeq(answers, LAMBDA o : o.value # None /\ o.value[1] # <<>>)
        ps == [j \in 1..Len(hits) |-> hits[j].value[1]]
        translated ==
            IF ps = <<>> THEN Returned(<<>>)
            ELSE LET g == Ask(path_to_text_prompt(ps))
                 IN IF g.kind = "raise" THEN g ELSE paths_to_text(g.value.response)
        sentences == translated.value
        summarized ==
            IF sentences = <<>> THEN Returned(<<>>)
            ELSE LET g == Ask(path_summary_prompt(sentences))
                 IN IF g.kind = "raise" THEN g ELSE Returned(summarize_paths(g.value.response))
        summary == summarized.value
        n == Min(Len(ms), Len(selections))
        chosen == [i \in 1..n |->
                    LET g == Ask(candidate_decision_prompt(req.text, ms[i], selections[i],
                                                           summary))
                    IN IF g.kind = "raise" THEN g
                       ELSE parse_decision(g.value.response, selections[i])]
    IN IF extracted.kind = "raise" THEN AloneFailed(extracted)
       ELSE IF FirstRaised(found) # 0 THEN AloneFailed(found[FirstRaised(found)])
       ELSE IF FirstRaised(answers) # 0 THEN AloneFailed(answers[FirstRaised(answers)])
       ELSE IF translated.kind = "raise" THEN AloneFailed(translated)
       ELSE IF summarized.kind = "raise" THEN AloneFailed(summarized)
       ELSE IF FirstRaised(chosen) # 0 THEN AloneFailed(chosen[FirstRaised(chosen)])
       ELSE AloneDone(selections, ps,
                      [i \in 1..n |->
                          DisambiguatedMention(ms[i], chosen[i].value,
                              PathEvidence(ps, IF summary = <<>> THEN None
                                               ELSE Some(summary)))])

\* ------------------------- _shortest_path_fallback, one loop iteration a step

\* the local variables of a running call, and its outcome once it returned
BfsFrame(source_iri, target_iri, max_hops, queue, visited, outcome) ==
    [op |-> "_shortest_path_fallback", source_iri |-> source_iri,
     target_iri |-> target_iri, max_hops |-> max_hops, queue |-> queue,
     visited |-> visited, outcome |-> outcome]

\* the call up to its while loop
bfs_enter(graph, source_iri, target_iri, max_hops) ==
    IF ~GraphHasKey(graph, source_iri) \/ ~GraphHasKey(graph, target_iri)
    THEN BfsFrame(source_iri, target_iri, max_hops, <<>>, {}, Some(Returned(None)))
    ELSE BfsFrame(source_iri, target_iri, max_hops, << <<source_iri, <<>> >> >>, {}, None)

\* mutant: an entry whose node was visited before is left at the head of the queue
bfs_iteration_keeps_visited(graph, frame) ==
    IF frame.queue = <<>> THEN [frame EXCEPT !.outcome = Some(Returned(None))]
    ELSE LET current == Head(frame.queue)[1]
             path == Head(frame.queue)[2]
             rest == Tail(frame.queue)
         IN IF Len(path) > frame.max_hops THEN [frame EXCEPT !.queue = rest]
            ELSE IF current = frame.target_iri
            THEN [frame EXCEPT !.queue = rest, !.outcome = Some(Returned(Some(path)))]
            ELSE IF current \in frame.visited THEN frame
            ELSE LET rels == GraphGet(graph, current)
                     ext == [i \in 1..Len(rels) |->
                               <<rels[i][2],
                                 Append(path, PathStep(current, None, rels[i][1],
                                                       rels[i][2], Some(rels[i][3])))>>]
                 IN [frame EXCEPT !.queue = rest \o ext,
                                  !.visited = frame.visited \cup {current}]

\* the test of the while loop and one pass through its body
bfs_iteration(graph, frame) ==
    IF frame.queue = <<>> THEN [frame EXCEPT !.outcome = Some(Returned(None))]
    ELSE LET current == Head(frame.queue)[1]
             path == Head(frame.queue)[2]
             rest == Tail(frame.queue)
         IN IF Len(path) > frame.max_hops THEN [frame EXCEPT !.queue = rest]
            ELSE IF current = frame.target_iri
            THEN [frame EXCEPT !.queue = rest, !.outcome = Some(Returned(Some(path)))]
            ELSE IF current \in frame.visited THEN [frame EXCEPT !.queue = rest]
            ELSE LET rels == GraphGet(graph, current)
                     ext == [i \in 1..Len(rels) |->
                               <<rels[i][2],
                                 Append(path, PathStep(current, None, rels[i][1],
                                                       rels[i][2], Some(rels[i][3])))>>]
                 IN [frame EXCEPT !.queue = rest \o ext,
                                  !.visited = frame.visited \cup {current}]

BfsRunning == ret.op = "_shortest_path_fallback" /\ ret.outcome = None
BfsReturned == ret.op = "_shortest_path_fallback" /\ ret.outcome # None

\* in-memory graphs with cycles, a self-loop and parallel edges
CyclicGraph == FallbackGraph(Iris, {1, 2, 4, 5, 6})
ParallelGraph ==
    << [iri |-> "c1", relations |-> << <<"related", "c2", <<"N", "e">> >>,
                                       <<"broader", "c2", <<"N", "e">> >>,
                                       <<"related", "c2", <<"N", "e">> >> >>],
       [iri |-> "c2", relations |-> << <<"related", "c1", <<"G", "t">> >>,
                                       <<"related", "c2", <<"N", "e">> >>,
                                       <<"narrower", "c1", <<"G", "t">> >> >>] >>

TerminationInit ==
    /\ driver = FALSE
    /\ fallback_graph \in {Some(CyclicGraph), Some(ParallelGraph)}
    /\ neo4j_edges = {}
    /\ ollama_client = TRUE
    /\ graph_gateway = TRUE
    /\ ret = NoCall
    /\ RequestIdle
    /\ stub = Some(<<>>)
    /\ parked = None

\* a direct call of the gateway's shortest_path
EnterShortestPath ==
    /\ ret = NoCall
    /\ pc = "idle"
    /\ \E s \in Iris \cup {UnknownIri}, t \in Iris \cup {UnknownIri}, h \in 0..MaxHops :
          ret' = bfs_enter(fallback_graph[1], s, t, h)
    /\ UNCHANGED <<gateway_vars, service_vars, request_vars, worker_vars>>

\* one iteration of the while loop of the running call
BfsIteration ==
    /\ BfsRunning
    /\ ret' = bfs_iteration(fallback_graph[1], ret)
    /\ UNCHANGED <<gateway_vars, service_vars, request_vars, worker_vars>>

\* a request is posted to a service that has no call running
PostAnalyzeOnly ==
    /\ ret = NoCall
    /\ PostAnalyze

\* _compute_paths issues its next shortest_path call
PathQueryEnter ==
    /\ pc = "paths"
    /\ ret = NoCall
    /\ qi < Len(PathQueries(candidate_selections))
    /\ LET q == PathQueries(candidate_selections)[qi + 1]
       IN /\ ret' = bfs_enter(fallback_graph[1], q.source, q.target, request[1].max_hops)
          /\ calls' = Append(calls, Call("shortest_path",
                               [source |-> q.source, target |-> q.target,
                                max_hops |-> request[1].max_hops,
                                hub_threshold |-> request[1].hub_threshold]))
    /\ UNCHANGED <<gateway_vars, service_vars, worker_vars, idempotence_key, pc, request,
                   mentions, candidate_selections, qi, paths, path_sentences,
                   summary_text, decisions, generation, error, http_status>>

\* the call returned: `if path: paths.append(path)`, and the loops go on
PathQueryReturn ==
    /\ pc = "paths"
    /\ BfsReturned
    /\ ret' = NoCall
    /\ qi' = qi + 1
    /\ paths' = IF ret.outcome[1].value # None /\ ret.outcome[1].value[1] # <<>>
                THEN Append(paths, ret.outcome[1].value[1]) ELSE paths
    /\ UNCHANGED <<gateway_vars, service_vars, worker_vars, idempotence_key, pc, request,
                   mentions, candidate_selections, path_sentences, summary_text,
                   decisions, generation, calls, error, http_status>>

\* direct calls, and a request from its arrival to the return of _compute_paths
TerminationNext ==
    \/ EnterShortestPath
    \/ BfsIteration
    \/ PostAnalyzeOnly
    \/ ExtractMentions
    \/ SelectCandidate
    \/ SelectDone
    \/ PathQueryEnter
    \/ PathQueryReturn
    \/ PathsDone

\* what every step of a call, or of a request up to the return of
\* _compute_paths, advances
progress == <<pc, qi, ret, Len(calls), Len(candidate_selections)>>

\* a running call or request is always given its next step
SpecTermination ==
    TerminationInit /\ [][TerminationNext]_vars /\ WF_progress(TerminationNext)

\* ------------------------------------------ direct calls of _extract_context

\* length of the longest text a context is cut from
MaxTextLen == 170

\* a text of n characters, each kept by its position
TextOfLen(n) == [i \in 1..n |-> i]

TextLengths == {0, 1, 3, Window, 2 * Window, 2 * Window + 1, MaxTextLen}

Offsets ==
    {None} \cup {Some(k) : k \in {0, 1, 3, Window, Window + 1, MaxTextLen - Window,
                                   MaxTextLen - 1, MaxTextLen}}

CallExtractContext ==
    /\ ret = NoCall
    /\ \E n \in TextLengths, start \in Offsets, end \in Offsets :
          ret' = [op |-> "_extract_context", text |-> TextOfLen(n), start |-> start,
                  end |-> end, value |-> extract_context(TextOfLen(n), start, end)]
    /\ UNCHANGED <<gateway_vars, service_vars, request_vars, worker_vars>>

ContextNext == CallExtractContext

\* _extract_context reads nothing of the service
ContextInit ==
    /\ driver = FALSE
    /\ fallback_graph = None
    /\ neo4j_edges = {}
    /\ ollama_client = TRUE
    /\ graph_gateway = TRUE
    /\ ret = NoCall
    /\ RequestIdle
    /\ OneRequest

SpecContext == ContextInit /\ [][ContextNext]_vars

\* ------------------------------------------------------ HTTP controller
\* (direct requests against the blueprint, the service's analyze stubbed)

\* JSON values of the request body
JInt(n) == [type |-> "int", int |-> n]
\* a float with a fractional part (2.7), kept by its truncation, which is all
\* int() reads of it
JFloat(trunc) == [type |-> "float", trunc |-> trunc]
JStr(chars) == [type |-> "str", chars |-> chars]
JBool(b) == [type |-> "bool", bool |-> b]

Digits == <<"0", "1", "2", "3", "4", "5", "6", "7", "8", "9">>
IsDigit(c) == \E d \in 1..Len(Digits) : Digits[d] = c
DigitValue(c) == (CHOOSE d \in 1..Len(Digits) : Digits[d] = c) - 1

RECURSIVE DecimalValue(_)
DecimalValue(chars) ==
    IF chars = <<>> THEN 0
    ELSE 10 * DecimalValue(SubSeq(chars, 1, Len(chars) - 1)) + DigitValue(chars[Len(chars)])

\* Python's int(x) on a JSON value
python_int(v) ==
    CASE v.type = "int" -> Returned(v.int)
      [] v.type = "float" -> Returned(v.trunc)
      [] v.type = "bool" -> Returned(IF v.bool THEN 1 ELSE 0)
      [] v.type = "str" ->
            IF v.chars # <<>> /\ \A i \in 1..Len(v.chars) : IsDigit(v.chars[i])
            THEN Returned(DecimalValue(v.chars))
            ELSE Raised("ValueError", "invalid literal for int()")
      [] OTHER -> Raised("TypeError", "int() argument")

\* truthiness of a JSON value
python_bool(v) ==
    CASE v.type = "int" -> v.int # 0
      [] v.type = "float" -> TRUE
      [] v.type = "bool" -> v.bool
      [] v.type = "str" -> v.chars # <<>>
      [] v.type = "null" -> FALSE
      [] OTHER -> TRUE

\* data.get("top_k", 5) and data.get("max_hops", 2)
DefaultTopK == 5
DefaultMaxHops == 2

\* `request.get_json(silent=True) or {}` : a JSON object
ObjectBody(fields) == [kind |-> "object", fields |-> fields]

body_get(body, key, default) ==
    IF key \in DOMAIN body.fields THEN body.fields[key] ELSE default

\* the view function analyze of the blueprint: the status it answers and the
\* AnalyzeRequests it hands to service.analyze; service_outcome is what
\* service.analyze does when it is called
controller_analyze(body, service_outcome) ==
    LET text == body_get(body, "text", JNull)
        top_k == python_int(body_get(body, "top_k", JInt(DefaultTopK)))
        max_hops == python_int(body_get(body, "max_hops", JInt(DefaultMaxHops)))
        hub_raw == body_get(body, "hub_threshold", JNull)
        hub_threshold == IF hub_raw.type # "null" THEN python_int(hub_raw) ELSE Returned(0)
        hub_value == IF hub_raw.type # "null" THEN Some(hub_threshold.value) ELSE None
        answer(status, called) == [status |-> status, called_with |-> called]
    IN IF ~python_bool(text) THEN answer(400, <<>>)
       ELSE IF top_k.kind = "raise" \/ max_hops.kind = "raise" \/ hub_threshold.kind = "raise"
       THEN answer(400, <<>>)
       ELSE IF top_k.value <= 0 THEN answer(400, <<>>)
       ELSE IF max_hops.value <= 0 THEN answer(400, <<>>)
       ELSE answer(IF service_outcome.kind = "raise" THEN StatusOf(service_outcome.exc)
                   ELSE 200,
                   <<AnalyzeRequest(text, top_k.value, max_hops.value, hub_value)>>)

\* mutant: a remote driver is not required, a fallback graph counts as healthy
gateway_health_fallback_ok(server) ==
    IF ~driver
    THEN [status |-> IF fallback_graph # None THEN "ok" ELSE "unconfigured"]
    ELSE CASE server = "raise" -> [status |-> "unavailable"]
           [] server = "one" -> [status |-> "ok"]
           [] OTHER -> [status |-> "degraded"]

\* SkosGraphGateway.health; server = what the session does with RETURN 1 AS ok
gateway_health(server) ==
    IF ~driver THEN [status |-> "unconfigured"]
    ELSE CASE server = "raise" -> [status |-> "unavailable"]
           [] server = "one" -> [status |-> "ok"]
           [] OTHER -> [status |-> "degraded"]

\* OllamaClient.health_check: a status dict
HealthCheckOutcomes == {[status |-> "ok"], [status |-> "unavailable"], [status |-> "degraded"]}

\* KnowledgeGraphService.health
service_health(server, llm) ==
    [neo4j |-> IF graph_gateway THEN gateway_health(server) ELSE [status |-> "unconfigured"],
     llm |-> IF ollama_client THEN llm ELSE [status |-> "unconfigured"]]

\* the view function health of the blueprint
controller_health(status) ==
    [body |-> status,
     status |-> IF status.neo4j.status = "ok" /\ status.llm.status = "ok" THEN 200 ELSE 503]

\* request bodies
TextValues == {JNull, JStr(<<>>), JStr(RequestText)}
CountValues ==
    {JNull, JInt(0 - 1), JInt(0), JInt(1), JInt(3), JFloat(2), JFloat(0), JStr(<<"3">>),
     JStr(<<"1", "0">>), JStr(<<"x">>), JBool(TRUE), JList(<<>>)}
ThresholdValues == {JNull, JInt(0), JInt(2), JFloat(2), JStr(<<"2">>), JStr(<<"x">>)}

\* the JSON objects with any of the four fields
Bodies ==
    { ObjectBody([k \in present |->
                    CASE k = "text" -> t
                      [] k = "top_k" -> tk
                      [] k = "max_hops" -> mh
                      [] OTHER -> ht]) :
        present \in SUBSET {"text", "top_k", "max_hops", "hub_threshold"},
        t \in TextValues, tk \in CountValues, mh \in CountValues, ht \in ThresholdValues }

\* what the service's analyze does when the controller calls it
ServiceOutcomes ==
    {Returned("response"), Raised("FileNotFoundError", "prompt"),
     Raised("RequestException", "transport"), Raised("RuntimeError", "configuration"),
     Raised("ValueError", "NER stage returned invalid JSON.")}

PostAnalyzeBody ==
    /\ ret = NoCall
    /\ \E body \in Bodies, service_outcome \in ServiceOutcomes :
          LET answer == controller_analyze(body, service_outcome)
          IN /\ answer.called_with = <<>> => service_outcome = Returned("response")
             /\ ret' = [op |-> "POST /analyze", body |-> body,
                        service_outcome |-> service_outcome,
                        status |-> answer.status, called_with |-> answer.called_with]
    /\ UNCHANGED <<gateway_vars, service_vars, request_vars, worker_vars>>

GetHealth ==
    /\ ret = NoCall
    /\ \E server \in {"one", "other", "raise"}, llm \in HealthCheckOutcomes :
          ret' = [op |-> "GET /health", server |-> server, llm |-> llm,
                  outcome |-> Returned(controller_health(service_health(server, llm)))]
    /\ UNCHANGED <<gateway_vars, service_vars, request_vars, worker_vars>>

ControllerNext == PostAnalyzeBody \/ GetHealth

ControllerInit ==
    /\ driver \in BOOLEAN
    /\ fallback_graph \in {None, Some(FallbackGraph(Iris, {1, 2}))}
    /\ neo4j_edges = {}
    /\ ollama_client \in BOOLEAN
    /\ graph_gateway \in BOOLEAN
    /\ ~graph_gateway => (driver = FALSE /\ fallback_graph = None)
    /\ ret = NoCall
    /\ RequestIdle
    /\ OneRequest

SpecController == ControllerInit /\ [][ControllerNext]_vars

\* ------------------------------------------------------------------------
\* Properties of shortest_path (direct calls, SpecGateway)
\* ------------------------------------------------------------------------

IsPathCall == ret.op = "shortest_path"
ReturnedPath == IsPathCall /\ ret.outcome.kind = "return" /\ ret.outcome.value # None
RetPath == ret.outcome.value[1]

\* nodes reachable from `from` in at most h stored edges of the fallback graph
RECURSIVE FallbackReach(_, _, _)
FallbackReach(graph, from, h) ==
    IF h = 0 THEN from
    ELSE FallbackReach(graph,
            from \cup {r[2] : r \in UNION {{GraphGet(graph, n)[i] : i \in 1..Len(GraphGet(graph, n))} : n \in from}},
            h - 1)

\* nodes reachable from `from` in at most h traversed relationships, either direction
RECURSIVE Neo4jReach(_, _, _)
Neo4jReach(edges, from, h) ==
    IF h = 0 THEN from
    ELSE Neo4jReach(edges,
            from \cup {e.object : e \in {x \in edges : x.type \in TraversedTypes /\ x.subject \in from}}
                 \cup {e.subject : e \in {x \in edges : x.type \in TraversedTypes /\ x.object \in from}},
            h - 1)

\* a connecting path of at most h edges exists in the active backend
Connected(s, t, h) ==
    IF driver THEN s \in Neo4jNodes /\ t \in Neo4jReach(neo4j_edges, {s}, h)
    ELSE IF fallback_graph # None THEN t \in FallbackReach(fallback_graph[1], {s}, h)
    ELSE FALSE

\* C4: every Path returned by shortestPath has at most maxHops edges.
C4_PathWithinMaxHops ==
    ReturnedPath => Len(RetPath) <= ret.max_hops

C4_Witness ==
    /\ ReturnedPath
    /\ Len(RetPath) = ret.max_hops
    /\ ret.max_hops >= 2

\* C5: when no connecting path of at most maxHops edges exists (unknown
\* identifiers included) and the backend answers, shortestPath returns absent
\* and raises nothing.
C5_NoPathIsAbsent ==
    (IsPathCall /\ ret.up /\ ~Connected(ret.source_iri, ret.target_iri, ret.max_hops))
        => ret.outcome = Returned(None)

\* scenario 4: maxHops = 1, the only connection has length 2, the result is absent
C5_Witness ==
    /\ IsPathCall /\ ret.up
    /\ ret.max_hops = 1
    /\ ~Connected(ret.source_iri, ret.target_iri, 1)
    /\ Connected(ret.source_iri, ret.target_iri, 2)
    /\ ret.outcome = Returned(None)

\* intermediate nodes of a node sequence
Intermediate(nodes) == {nodes[i] : i \in 2..(Len(nodes) - 1)}

\* some path of 1..h traversed relationships from s to t has no intermediate
\* node whose degree exceeds the threshold
CleanPathExists(edges, s, t, h, thr) ==
    \E k \in 1..h : \E w \in Neo4jWalks(edges, s, k) :
        /\ w.nodes[k + 1] = t
        /\ \A n \in Intermediate(w.nodes) : thr = None \/ NodeDegree(edges, n) <= thr[1]

\* C6 (as claimed): on the remote backend a Path is returned whenever some path
\* within maxHops passes the hub filter on its intermediate nodes.
C6_CleanPathReturned ==
    (/\ IsPathCall /\ driver /\ ret.up
     /\ ret.source_iri # ret.target_iri
     /\ ret.source_iri \in Neo4jNodes
     /\ CleanPathExists(neo4j_edges, ret.source_iri, ret.target_iri,
                        ret.max_hops, ret.hub_threshold))
        => (ret.outcome.kind = "return" /\ ret.outcome.value # None)

\* C7: with hubThreshold set, no Path returned by the remote backend has an
\* intermediate node whose incident-edge count exceeds hubThreshold.
C7_NoHubOnReturnedPath ==
    (ReturnedPath /\ driver /\ ret.hub_threshold # None)
        => \A i \in 1..(Len(RetPath) - 1) :
              NodeDegree(neo4j_edges, RetPath[i].object_iri) <= ret.hub_threshold[1]

C7_Witness ==
    /\ ReturnedPath /\ driver /\ ret.hub_threshold # None
    /\ Len(RetPath) = 2
    /\ NodeDegree(neo4j_edges, RetPath[1].object_iri) = ret.hub_threshold[1]

\* ------------------------------------------------------------------------
\* Properties of the /analyze pipeline (Spec)
\* ------------------------------------------------------------------------

LastCall == calls[Len(calls)]

\* the state right after a decision generate call that returned `generation`
AfterDecision ==
    /\ calls # <<>>
    /\ LastCall = Call("generate", "candidate_decision")
    /\ generation[1].kind = "return"

\* the mention the last decision call was made for
DecidedIndex == IF pc = "failed" THEN Len(decisions) + 1 ELSE Len(decisions)

FirstOrNone(selection) ==
    IF selection.candidates # <<>> THEN Some(selection.candidates[1]) ELSE None

\* the response is absent or empty, is not JSON, is JSON but no object, or is an
\* object without "iri"
NeedsFallback(response) ==
    \/ response = None
    \/ response[1].empty
    \/ response[1].json = None
    \/ response[1].json[1].type # "object"
    \/ "iri" \notin DOMAIN response[1].json[1].fields

\* C1 (as claimed): an absent, unparseable, non-object or iri-less decision
\* response raises nothing and the chosen candidate is the mention's first
\* candidate, or absent when it has none.
C1_DecisionFallback ==
    (AfterDecision /\ NeedsFallback(generation[1].value.response))
        => /\ pc # "failed"
           /\ decisions[DecidedIndex].chosen = FirstOrNone(candidate_selections[DecidedIndex])

\* C2 (as claimed): a mention with zero candidates passes the decision stage
\* without error and with chosen = absent, whatever the decision call returns.
C2_ZeroCandidatesChosenAbsent ==
    (AfterDecision /\ candidate_selections[DecidedIndex].candidates = <<>>)
        => /\ pc # "failed"
           /\ decisions[DecidedIndex].chosen = None

\* C3 (as claimed): a backend error of one shortestPath query does not abort
\* the request: the request never ends on a shortest_path call.
C3_PathErrorDoesNotAbort ==
    ~(pc = "failed" /\ calls # <<>> /\ LastCall.op = "shortest_path")

\* number of shortest_path calls the request has issued
NumPathCalls == Cardinality({i \in 1..Len(calls) : calls[i].op = "shortest_path"})

PathsCollected == pc \in {"p2t", "summary", "decide", "done"}

\* M mentions, each with exactly K candidates
Uniform(M, K) ==
    /\ Len(candidate_selections) = M
    /\ \A i \in 1..M : Len(candidate_selections[i].candidates) = K

\* ordered pairs of positions of one candidate list
PositionPairs(selection) ==
    {<<a, b>> \in (1..Len(selection.candidates)) \X (1..Len(selection.candidates)) : a # b}

\* those whose two candidates carry different identifiers
DistinctIriPairs(selection) ==
    {ab \in PositionPairs(selection) :
        selection.candidates[ab[1]].iri # selection.candidates[ab[2]].iri}

RECURSIVE SumOver(_, _)
SumOver(f, n) == IF n = 0 THEN 0 ELSE f[n] + SumOver(f, n - 1)

\* C8 (as claimed): M mentions with K candidates each give M(M-1)K^2 cross
\* queries plus K(K-1) intra queries per mention with at least 2 candidates.
C8_QueryCountClaimed ==
    \A M \in 0..3, K \in 0..3 :
        (PathsCollected /\ Uniform(M, K))
            => NumPathCalls = M * (M - 1) * K * K + (IF K >= 2 THEN M * K * (K - 1) ELSE 0)

\* C8 (amended): the intra-mention queries are the ordered pairs of candidates
\* of one mention whose identifiers differ; a collection that returns has issued
\* exactly the cross queries plus these, and one that a raising query ended has
\* issued no more.
C8_QueryCount ==
    \A M \in 0..(MaxTopK + 1), K \in 0..MaxTopK :
        Uniform(M, K)
            => LET n == M * (M - 1) * K * K
                        + SumOver([i \in 1..M |->
                              Cardinality(DistinctIriPairs(candidate_selections[i]))], M)
               IN /\ NumPathCalls <= n
                  /\ PathsCollected => NumPathCalls = n

C8_Witness ==
    /\ PathsCollected
    /\ Uniform(2, 2)
    /\ NumPathCalls = 12
    /\ Len(paths) < NumPathCalls

\* a mention whose two candidates share an identifier
C8_WitnessDuplicates ==
    /\ PathsCollected
    /\ \E i \in 1..Len(candidate_selections) :
          PositionPairs(candidate_selections[i]) # DistinctIriPairs(candidate_selections[i])

\* scenario 1: two mentions, one candidate each, two different concepts linked by
\* a direct `related` edge of the active backend, no hub threshold
Sole(i) == candidate_selections[i].candidates[1]

RelatedEdge(a, b) ==
    IF driver
    THEN \E e \in neo4j_edges : e.type = "related" /\ {e.subject, e.object} = {a, b}
    ELSE /\ fallback_graph # None
         /\ \E x \in {a, b}, y \in {a, b} :
               /\ x # y
               /\ \E i \in 1..Len(GraphGet(fallback_graph[1], x)) :
                     /\ GraphGet(fallback_graph[1], x)[i][1] = "related"
                     /\ GraphGet(fallback_graph[1], x)[i][2] = y

Scenario1 ==
    /\ PathsCollected
    /\ Uniform(2, 1)
    /\ Sole(1).iri # Sole(2).iri
    /\ request[1].hub_threshold = None
    /\ RelatedEdge(Sole(1).iri, Sole(2).iri)

\* the query directions in which the backend finds the edge: both on the remote
\* backend; on the fallback graph those stored under the source's key whose
\* target is a key as well
DirectionsFound(a, b) ==
    IF driver THEN {<<a, b>>, <<b, a>>}
    ELSE {d \in {<<a, b>>, <<b, a>>} :
            /\ GraphHasKey(fallback_graph[1], d[1])
            /\ GraphHasKey(fallback_graph[1], d[2])
            /\ \E i \in 1..Len(GraphGet(fallback_graph[1], d[1])) :
                  GraphGet(fallback_graph[1], d[1])[i][2] = d[2]}

\* the state right after the summary generate call returned
AfterSummary ==
    /\ pc = "decide" /\ decisions = <<>>
    /\ Len(calls) >= 2
    /\ calls[Len(calls) - 1] = Call("generate", "path_summary")
    /\ generation[1].kind = "return"

NonBlank(response) == response # None /\ \E i \in 1..Len(response[1]) : response[1][i] # " "

\* the decision response names the candidate, or is absent, empty, not JSON or
\* an object without "iri"
NamesOrDefaults(response, candidate) ==
    \/ response = None
    \/ response[1].empty
    \/ response[1].json = None
    \/ /\ response[1].json[1].type = "object"
       /\ \/ "iri" \notin DOMAIN response[1].json[1].fields
          \/ response[1].json[1].fields.iri = candidate.iri

\* what scenario 1 says of the summary and of the choices
Scenario1Rest ==
    /\ (pc \in {"decide", "done"} /\ path_sentences # <<>>)
          => \E i \in 1..Len(calls) : calls[i] = Call("generate", "path_summary")
    /\ (AfterSummary /\ NonBlank(generation[1].value.response)) => summary_text # <<>>
    /\ (AfterDecision /\ NamesOrDefaults(generation[1].value.response, Sole(DecidedIndex)))
          => /\ pc # "failed"
             /\ decisions[DecidedIndex].chosen # None
             /\ decisions[DecidedIndex].chosen[1].iri = Sole(DecidedIndex).iri

C9_WitnessOneDirection ==
    /\ Scenario1 /\ pc = "done"
    /\ ~driver
    /\ Len(paths) = 1

\* the state right after the path-to-text generate call returned
AfterPathToText ==
    /\ calls # <<>>
    /\ LastCall = Call("generate", "path_to_text")
    /\ generation[1].kind = "return"
    /\ paths # <<>>

\* the response text is not JSON, or is JSON that is not a list
NotListSyntax(response) ==
    /\ response # None
    /\ \/ response[1].json = None
       \/ response[1].json[1].type # "list"

NumGenerate(stage) ==
    Cardinality({i \in 1..Len(calls) : calls[i] = Call("generate", stage)})

\* the request ended in the path-translation stage: its error names the stage,
\* the call was made once, and no summary, decision or result exists
FailedInPathTranslation ==
    /\ pc = "failed"
    /\ error = Some(Raised("ValueError", "Path translation stage returned invalid JSON."))
    /\ http_status = Some(400)
    /\ NumGenerate("path_to_text") = 1
    /\ NumGenerate("path_summary") = 0
    /\ NumGenerate("candidate_decision") = 0
    /\ summary_text = <<>>
    /\ decisions = <<>>

\* C10 (as claimed): with at least one path, a path-to-text response that is not
\* valid list syntax ends the request in the path-translation stage.
C10_TranslationFatalClaimed ==
    (AfterPathToText /\ NotListSyntax(generation[1].value.response))
        => FailedInPathTranslation

\* C10 (amended): the same for a non-empty response text; an empty response
\* text counts as the empty list.
C10_TranslationFatal ==
    (/\ AfterPathToText
     /\ NotListSyntax(generation[1].value.response)
     /\ ~generation[1].value.response[1].empty)
        => FailedInPathTranslation

C10_Witness ==
    /\ AfterPathToText
    /\ generation[1].value.response = Some(JsonText(JNumber))
    /\ FailedInPathTranslation

\* ------------------------------------------------------------------------
\* Transport errors of the text-generation calls (Spec)

\* the state right after a generate call that raised a transport error
AfterTransportError ==
    /\ calls # <<>>
    /\ LastCall.op = "generate"
    /\ generation # None
    /\ generation[1].kind = "raise"

\* the stage an error names in its message ("none" when it names no stage)
IdentifiedStage(exc) ==
    CASE exc.msg = "NER stage returned invalid JSON." -> "ner"
      [] exc.msg = "Path translation stage returned invalid JSON." -> "path_to_text"
      [] OTHER -> "none"

\* the request ended on the transport error: 502, no result, and the mention
\* whose decision call failed got no DisambiguatedMention
EndedOnTransportError ==
    /\ pc = "failed"
    /\ error = generation
    /\ error[1].exc = "RequestException"
    /\ http_status = Some(502)
    /\ Len(decisions) = Max(0, NumGenerate("candidate_decision") - 1)
    /\ LastCall.args # "candidate_decision" => decisions = <<>>

\* C11 (as claimed): a transport error of any generate call ends the request
\* with a fatal error that identifies the failing stage, without a result and
\* without a default choice for the mention being decided.
C11_TransportErrorFatal ==
    AfterTransportError
        => /\ EndedOnTransportError
           /\ IdentifiedStage(error[1]) = LastCall.args

\* ------------------------------------------------------------------------
\* Evidence attached to the decisions (Spec)

\* the PathEvidence of the whole request: every collected path, in collection
\* order, and the summary (absent when it is empty)
WholeRequestEvidence ==
    [paths |-> paths, summary |-> IF summary_text = <<>> THEN None ELSE Some(summary_text)]

\* C12: every DisambiguatedMention carries the whole-request PathEvidence, so
\* the evidence of any two mentions of a response is equal.
C12_SharedEvidence ==
    /\ \A i \in 1..Len(decisions) : decisions[i].evidence = WholeRequestEvidence
    /\ \A i, j \in 1..Len(decisions) : decisions[i].evidence = decisions[j].evidence

\* a response with two mentions that chose different candidates, two paths and
\* a summary
C12_Witness ==
    /\ pc = "done"
    /\ Len(decisions) >= 2
    /\ Len(paths) >= 2
    /\ summary_text # <<>>
    /\ decisions[1].chosen # None /\ decisions[2].chosen # None
    /\ decisions[1].chosen[1].iri # decisions[2].chosen[1].iri
    /\ decisions[1].evidence.paths = paths

\* ------------------------------------------------------------------------
\* Properties of search_candidates and of the backend choice (SpecGateway)

IsSearchCall == ret.op = "search_candidates"

\* the label contains the surface string, case ignored
ContainsIgnoringCase(surface, label) ==
    \E off \in 0..(Len(label) - Len(surface)) :
        \A j \in 1..Len(surface) : LowerChar(label[off + j]) = LowerChar(surface[j])

\* positions <<key, relation>> of the target entries that match, and their
\* place in graph iteration order
MatchingEntries(graph, surface) ==
    {e \in UNION {{<<k, i>> : i \in 1..Len(graph[k].relations)} : k \in 1..Len(graph)} :
        ContainsIgnoringCase(surface, graph[e[1]].relations[e[2]][3])}

EntryRank(entries, e) ==
    1 + Cardinality({f \in entries : f[1] < e[1] \/ (f[1] = e[1] /\ f[2] < e[2])})

\* C14: the in-memory search never raises and returns exactly the first `limit`
\* matching target entries in graph iteration order (none when nothing
\* matches, never more than `limit`).
C14_FallbackSearch ==
    (IsSearchCall /\ ~driver /\ fallback_graph # None)
        => LET graph == fallback_graph[1]
               entries == MatchingEntries(graph, ret.surface)
           IN /\ ret.outcome.kind = "return"
              /\ Len(ret.outcome.value) = Min(ret.limit, Cardinality(entries))
              /\ \A e \in entries :
                    EntryRank(entries, e) <= ret.limit
                        => ret.outcome.value[EntryRank(entries, e)] =
                              Candidate(graph[e[1]].relations[e[2]][2],
                                        graph[e[1]].relations[e[2]][3], Some(10))

\* more entries match than the limit allows, one of them only when case is ignored
C14_Witness ==
    /\ IsSearchCall /\ ~driver /\ fallback_graph # None
    /\ ret.surface = <<"G", "T">>
    /\ Cardinality(MatchingEntries(fallback_graph[1], ret.surface)) > ret.limit
    /\ Len(ret.outcome.value) = ret.limit
    /\ ret.limit = 2
    /\ ret.outcome.value[1].label # ret.outcome.value[2].label

\* nothing matches: the empty list
C14_WitnessEmpty ==
    /\ IsSearchCall /\ ~driver /\ fallback_graph # None
    /\ fallback_graph[1] # <<>>
    /\ ret.outcome = Returned(<<>>)

\* C16: with a remote driver configured every call is answered by the remote
\* backend, a remote failure surfaces as an error, and no call changes which
\* backend the gateway uses.
C16_BackendFixed ==
    /\ [](( ret.op # "none" /\ driver)
            => /\ ~ret.up => ret.outcome.kind = "raise"
               /\ IsPathCall =>
                    ret.outcome \in shortest_path_neo4j(neo4j_edges, ret.up, ret.source_iri,
                                        ret.target_iri, ret.max_hops, ret.hub_threshold)
               /\ IsSearchCall =>
                    ret.outcome \in search_candidates_neo4j(ret.up, ret.surface, ret.limit))
    /\ [][driver' = driver /\ fallback_graph' = fallback_graph]_vars

\* the remote server is down and the configured fallback graph holds the edge asked for
C16_Witness ==
    /\ IsPathCall /\ driver /\ ~ret.up
    /\ fallback_graph # None
    /\ shortest_path_fallback(fallback_graph[1], ret.source_iri, ret.target_iri,
                              ret.max_hops).value # None
    /\ ret.outcome.kind = "raise"

\* nodes at the end of a chain of exactly k stored edges that starts in `from`
RECURSIVE FallbackChainEnds(_, _, _)
FallbackChainEnds(graph, from, k) ==
    IF k = 0 THEN from
    ELSE FallbackChainEnds(graph,
            {r[2] : r \in UNION {{GraphGet(graph, n)[i] : i \in 1..Len(GraphGet(graph, n))} :
                                    n \in from}},
            k - 1)

\* edge counts 1..h of the stored chains from s to t
ChainLengths(graph, s, t, h) == {k \in 1..h : t \in FallbackChainEnds(graph, {s}, k)}

\* C20 (as claimed): whenever the stored edges hold a chain of at most maxHops
\* edges from source to target, the in-memory shortestPath returns a path of
\* minimal edge count.
C20_FallbackBfsComplete ==
    (/\ IsPathCall /\ ~driver /\ fallback_graph # None
     /\ ChainLengths(fallback_graph[1], ret.source_iri, ret.target_iri, ret.max_hops) # {})
        => /\ ret.outcome.kind = "return"
           /\ ret.outcome.value # None
           /\ \A k \in ChainLengths(fallback_graph[1], ret.source_iri, ret.target_iri,
                                    ret.max_hops) : Len(RetPath) <= k
           /\ Len(RetPath) \in ChainLengths(fallback_graph[1], ret.source_iri,
                                            ret.target_iri, ret.max_hops)

\* ------------------------------------------------------------------------
\* Missing collaborators (Spec)

\* the text-generation client, the gateway, or a backend of the gateway is missing
CollaboratorMissing ==
    \/ ~ollama_client
    \/ ~graph_gateway
    \/ (~driver /\ fallback_graph = None)

\* C15 (as claimed): without a text-generation client or a usable graph backend
\* analyze fails with a configuration error before any prompt load, generate
\* call, candidate search or path query.
C15_ConfigErrorImmediate ==
    (pc # "idle" /\ CollaboratorMissing)
        => /\ pc = "failed"
           /\ error # None
           /\ error[1].exc = "RuntimeError"
           /\ calls = <<>>

\* ------------------------------------------------------------------------
\* Properties of the HTTP controller (SpecController)

IsPostAnalyze == ret.op = "POST /analyze"

\* the field is in the body
HasField(body, key) == key \in DOMAIN body.fields

\* the text field is missing or empty
TextMissing(body) ==
    \/ ~HasField(body, "text")
    \/ body.fields.text.type = "null"
    \/ body.fields.text = JStr(<<>>)

\* the value is an integer: a JSON integer, or a string of decimal digits
IsInteger(v) ==
    \/ v.type = "int"
    \/ v.type = "str" /\ v.chars # <<>> /\ \A i \in 1..Len(v.chars) : IsDigit(v.chars[i])

IntegerOf(v) == IF v.type = "int" THEN v.int ELSE DecimalValue(v.chars)

\* the field is given and is not an integer (hub_threshold may be null)
NotAnInteger(body, key) ==
    /\ HasField(body, key)
    /\ ~IsInteger(body.fields[key])
    /\ ~(key = "hub_threshold" /\ body.fields[key].type = "null")

\* the field's integer, or the default when the field is not given
IntegerOr(body, key, default) ==
    IF HasField(body, key) THEN IntegerOf(body.fields[key]) ELSE default

\* the body POST /analyze must answer 400
InvalidBody(body) ==
    \/ TextMissing(body)
    \/ \E key \in {"top_k", "max_hops", "hub_threshold"} : NotAnInteger(body, key)
    \/ IntegerOr(body, "top_k", DefaultTopK) <= 0
    \/ IntegerOr(body, "max_hops", DefaultMaxHops) <= 0

\* C18 (as claimed): an invalid body is answered 400 without a call of the
\* service's analyze; a valid body makes exactly one call, with the body's
\* top_k, max_hops and hub_threshold (defaults 5, 2, absent).
C18_ControllerValidation ==
    IsPostAnalyze
        => IF InvalidBody(ret.body)
           THEN ret.status = 400 /\ ret.called_with = <<>>
           ELSE /\ Len(ret.called_with) = 1
                /\ ret.called_with[1].top_k = IntegerOr(ret.body, "top_k", DefaultTopK)
                /\ ret.called_with[1].max_hops = IntegerOr(ret.body, "max_hops", DefaultMaxHops)
                /\ ret.called_with[1].hub_threshold =
                      (IF HasField(ret.body, "hub_threshold")
                          /\ ret.body.fields.hub_threshold.type # "null"
                       THEN Some(IntegerOf(ret.body.fields.hub_threshold)) ELSE None)

IsGetHealth == ret.op = "GET /health"

\* the graph backend reports ok: a gateway with a remote driver whose server
\* answers the probe with 1
BackendOk == graph_gateway /\ driver /\ ret.server = "one"

\* the text generator reports ok
GeneratorOk == ollama_client /\ ret.llm.status = "ok"

C19_WitnessOk ==
    /\ IsGetHealth
    /\ BackendOk /\ GeneratorOk
    /\ ret.outcome.value.status = 200

\* ------------------------------------------------------------------------
\* Two runs of one request against a deterministic stub
\* ------------------------------------------------------------------------

Finished(frame) == frame.pc \in {"done", "failed"}

\* both requests have ended and were the same request
TwoRunsOfOneRequest ==
    /\ stub # None
    /\ parked # None
    /\ Finished(Frame)
    /\ Finished(parked[1])
    /\ request = parked[1].request

\* C13: two runs of the pipeline on the same request, on the same in-memory
\* graph and a stub that answers equal prompts with equal responses, end the
\* same way and yield the same list of DisambiguatedMention (mentions, chosen
\* candidates, paths and summary), although their idempotence keys differ.
C13_Determinism ==
    TwoRunsOfOneRequest
        => /\ idempotence_key # parked[1].idempotence_key
           /\ pc = parked[1].pc
           /\ error = parked[1].error
           /\ mentions = parked[1].mentions
           /\ decisions = parked[1].decisions

\* two completed runs of one request, with evidence, a summary and a decision
\* the stub made
C13_Witness ==
    /\ TwoRunsOfOneRequest
    /\ pc = "done"
    /\ Len(decisions) = 2
    /\ decisions[1].evidence.paths # <<>>
    /\ decisions[1].evidence.summary # None
    /\ decisions[1].chosen # None
    /\ idempotence_key # parked[1].idempotence_key

\* ------------------------------------------------------------------------
\* Requests in flight at the same time
\* ------------------------------------------------------------------------

\* what a finished request obtained
Obtained(frame) ==
    [pc |-> frame.pc, error |-> frame.error,
     candidate_selections |-> IF frame.pc = "done" THEN frame.candidate_selections ELSE <<>>,
     paths |-> IF frame.pc = "done" THEN frame.paths ELSE <<>>,
     decisions |-> IF frame.pc = "done" THEN frame.decisions ELSE <<>>]

InFlight == {Frame} \cup (IF parked = None THEN {} ELSE {parked[1]})

SameAsAlone ==
    (stub # None /\ ~driver)
        => \A frame \in InFlight :
              Finished(frame) => Obtained(frame) = analyze_alone(frame.request[1])

\* C17: no step of a request changes the in-memory graph or an attribute of
\* the service, and under every interleaving of two requests each request
\* obtains the candidates, paths and decisions it obtains when run alone.
C17_Interleaving ==
    /\ []SameAsAlone
    /\ [][fallback_graph' = fallback_graph /\ service_vars' = service_vars]_vars

\* a request ends with candidates, paths and decisions while a different
\* request is half-way through its path queries
C17_Witness ==
    /\ stub # None
    /\ parked # None
    /\ pc = "done"
    /\ decisions # <<>>
    /\ paths # <<>>
    /\ parked[1].pc = "paths"
    /\ parked[1].qi > 0
    /\ parked[1].qi < Len(PathQueries(parked[1].candidate_selections))
    /\ parked[1].request # request
    /\ parked[1].candidate_selections # candidate_selections

\* ------------------------------------------------------------------------
\* Shape of a returned path (direct calls, SpecGateway)
\* ------------------------------------------------------------------------

\* each step's object is the next step's subject
AdjacencyChain(path) ==
    \A i \in 1..(Len(path) - 1) : path[i].object_iri = path[i + 1].subject_iri

\* C21: every non-absent result of shortest_path(source, target) is a
\* non-empty adjacency chain that starts at source and ends at target, also
\* when source and target are the same identifier.
C21_AdjacencyChain ==
    ReturnedPath
        => /\ RetPath # <<>>
           /\ RetPath[1].subject_iri = ret.source_iri
           /\ RetPath[Len(RetPath)].object_iri = ret.target_iri
           /\ AdjacencyChain(RetPath)

\* ------------------------------------------------------------------------
\* Order of the path queries and of the evidence list
\* ------------------------------------------------------------------------

\* A query slot <<i, c, part, j, d>>: candidate c of mention i is the source,
\* candidate d of mention j the target; part 0 = j is another mention,
\* part 1 = j is the same mention (and the two identifiers differ).
QuerySlots(selections) ==
    LET M == 1..Len(selections)
        C(i) == 1..Len(selections[i].candidates)
    IN UNION { UNION { {<<i, c, 0, j, d>> : d \in C(j)} : j \in M \ {i} }
               \cup { <<i, c, 1, i, d>> : d \in {e \in C(i) :
                         selections[i].candidates[e].iri # selections[i].candidates[c].iri} }
               : <<i, c>> \in { <<i, c>> \in M \X (1..MaxTopK) : c \in C(i) } }

\* lexicographic order of two slots
SlotBefore(a, b) ==
    \E k \in 1..5 : a[k] < b[k] /\ \A l \in 1..(k - 1) : a[l] = b[l]

\* the slot with k - 1 slots before it
SlotAt(selections, k) ==
    CHOOSE a \in QuerySlots(selections) :
        Cardinality({b \in QuerySlots(selections) : SlotBefore(b, a)}) = k - 1

PathCalls == SelectSeq(calls, LAMBDA call : call.op = "shortest_path")

\* the k-th shortest_path call asks for the k-th slot
QueriesInOrder ==
    /\ Len(PathCalls) <= Cardinality(QuerySlots(candidate_selections))
    /\ \A k \in 1..Len(PathCalls) :
          LET a == SlotAt(candidate_selections, k)
          IN /\ PathCalls[k].args.source = candidate_selections[a[1]].candidates[a[2]].iri
             /\ PathCalls[k].args.target = candidate_selections[a[4]].candidates[a[5]].iri
    /\ PathsCollected => Len(PathCalls) = Cardinality(QuerySlots(candidate_selections))

\* a path query that returned: the evidence list grows by the result exactly
\* when the result is not absent
CollectsEveryResult ==
    (pc = "paths" /\ pc' = "paths" /\ qi' = qi + 1)
        => LET a == calls'[Len(calls')].args
           IN \E up \in BOOLEAN :
                \E o \in shortest_path(up, a.source, a.target, a.max_hops, a.hub_threshold) :
                    /\ o.kind = "return"
                    /\ paths' = IF o.value # None THEN Append(paths, o.value[1]) ELSE paths

\* C22: the path queries are issued mention by mention, candidate by
\* candidate, towards the other mentions in order and their candidates in
\* order, and then towards the other candidates of the same mention; the
\* evidence list holds exactly the non-absent results, in query order.
C22_QueryOrder ==
    /\ []QueriesInOrder
    /\ [][CollectsEveryResult]_vars

\* ------------------------------------------------------------------------
\* Sequence of the external calls of one request
\* ------------------------------------------------------------------------

\* the generation and backend calls of the request, in the order issued
ExternalCalls == SelectSeq(calls, LAMBDA call : call.op # "load_prompt")

StageRank(call) ==
    CASE call = Call("generate", "ner") -> 1
      [] call.op = "search_candidates" -> 2
      [] call.op = "shortest_path" -> 3
      [] call = Call("generate", "path_to_text") -> 4
      [] call = Call("generate", "path_summary") -> 5
      [] call = Call("generate", "candidate_decision") -> 6
      [] OTHER -> 0

SearchCalls == SelectSeq(calls, LAMBDA call : call.op = "search_candidates")

\* C23: the calls of one request come stage by stage -- one NER generation,
\* one search per mention in mention order, the path queries, at most one
\* path-to-text and one summary generation, one decision generation per
\* mention -- and no call is issued twice; a completed request has issued all
\* of them.
C23_SequentialStages ==
    /\ \A k \in 1..Len(ExternalCalls) : StageRank(ExternalCalls[k]) # 0
    /\ \A k \in 1..(Len(ExternalCalls) - 1) :
          StageRank(ExternalCalls[k]) <= StageRank(ExternalCalls[k + 1])
    /\ NumGenerate("ner") <= 1
    /\ ExternalCalls # <<>> => ExternalCalls[1] = Call("generate", "ner")
    /\ Len(SearchCalls) <= Len(mentions)
    /\ \A k \in 1..Len(SearchCalls) :
          SearchCalls[k].args = [surface |-> mentions[k].surface, limit |-> request[1].top_k]
    /\ NumPathCalls <= Len(PathQueries(candidate_selections))
    /\ NumGenerate("path_to_text") <= 1
    /\ NumGenerate("path_summary") <= 1
    /\ NumGenerate("candidate_decision") <= Len(mentions)
    /\ pc = "done"
          => /\ NumGenerate("ner") = 1
             /\ Len(SearchCalls) = Len(mentions)
             /\ NumPathCalls = Len(PathQueries(candidate_selections))
             /\ NumGenerate("candidate_decision") = Len(mentions)

\* a completed request that went through every stage, with two mentions
C23_Witness ==
    /\ pc = "done"
    /\ Len(mentions) = 2
    /\ NumPathCalls >= 2
    /\ NumGenerate("path_to_text") = 1
    /\ NumGenerate("path_summary") = 1
    /\ NumGenerate("candidate_decision") = 2

\* ------------------------------------------------------------------------
\* Skipped narration stages and the trimmed summary
\* ------------------------------------------------------------------------

Spaces(n) == [i \in 1..n |-> " "]

\* `trimmed` is `text` without its leading and trailing blanks
IsTrimOf(trimmed, text) ==
    /\ \E i \in 0..Len(text), j \in 0..Len(text) : text = Spaces(i) \o trimmed \o Spaces(j)
    /\ trimmed # <<>> => (trimmed[1] # " " /\ trimmed[Len(trimmed)] # " ")

\* the narration stages are behind the request
NarrationOver ==
    \/ pc \in {"decide", "done"}
    \/ pc = "failed" /\ calls # <<>> /\ LastCall = Call("generate", "candidate_decision")

\* C24: with an empty evidence list neither narration call is issued, the
\* sentence list and the summary are empty, and the request goes on to one
\* decision per mention; the summary call is issued exactly when the
\* path-to-text stage gave at least one sentence, and the summary is its
\* response without surrounding whitespace.
C24_SkippedNarration ==
    /\ paths = <<>>
          => /\ NumGenerate("path_to_text") = 0
             /\ NumGenerate("path_summary") = 0
             /\ path_sentences = <<>>
             /\ summary_text = <<>>
    /\ (paths = <<>> /\ pc = "done")
          => /\ Len(decisions) = Len(mentions)
             /\ \A i \in 1..Len(decisions) : decisions[i].evidence = PathEvidence(<<>>, None)
    /\ NumGenerate("path_summary") >= 1 => path_sentences # <<>>
    /\ NarrationOver => (NumGenerate("path_summary") = 1 <=> path_sentences # <<>>)
    /\ AfterSummary
          => IsTrimOf(summary_text,
                      IF generation[1].value.response = None THEN <<>>
                      ELSE generation[1].value.response[1])

\* a request without any path completes with a decision for each of its two
\* mentions
C24_Witness ==
    /\ pc = "done"
    /\ paths = <<>>
    /\ NumPathCalls >= 2
    /\ Len(mentions) = 2
    /\ Len(decisions) = 2

\* a summary response with blanks around it
C24_WitnessTrimmed ==
    /\ AfterSummary
    /\ generation[1].value.response = Some(<<" ", "s", " ">>)
    /\ summary_text = <<"s">>

\* ------------------------------------------------------------------------
\* The decision context (direct calls, SpecContext)
\* ------------------------------------------------------------------------

IsContextCall == ret.op = "_extract_context"

\* `context` is the run of the characters first..last of `text`
IsRun(context, text, first, last) ==
    /\ Len(context) = IF last >= first THEN last - first + 1 ELSE 0
    /\ \A i \in 1..Len(context) : context[i] = text[first + i - 1]

\* both offsets are given and 0 <= start <= end <= len(text)
SpanInText ==
    /\ ret.start # None /\ ret.end # None
    /\ 0 <= ret.start[1] /\ ret.start[1] <= ret.end[1] /\ ret.end[1] <= Len(ret.text)

\* C25: for a mention span inside the text the context is the text from 80
\* characters before the span, or the start of the text, to 80 characters
\* after it, or the end of the text, so it holds the span and nothing outside
\* the text; without a start or an end it is the first 160 characters.
C25_ContextWindow ==
    IsContextCall
        => /\ SpanInText
                => /\ IsRun(ret.value, ret.text,
                            IF ret.start[1] > 80 THEN ret.start[1] - 80 + 1 ELSE 1,
                            IF ret.end[1] + 80 < Len(ret.text) THEN ret.end[1] + 80
                            ELSE Len(ret.text))
                   /\ \A k \in (ret.start[1] + 1)..ret.end[1] :
                         \E i \in 1..Len(ret.value) : ret.value[i] = ret.text[k]
                   /\ Len(ret.value) <= (ret.end[1] - ret.start[1]) + 160
           /\ (ret.start = None \/ ret.end = None)
                => IsRun(ret.value, ret.text, 1,
                         IF Len(ret.text) > 160 THEN 160 ELSE Len(ret.text))
           /\ \A i \in 1..Len(ret.value) : ret.value[i] \in 1..Len(ret.text)

\* a span with more than 80 characters on its left and fewer on its right
C25_Witness ==
    /\ IsContextCall
    /\ SpanInText
    /\ ret.start[1] > 80
    /\ ret.end[1] > ret.start[1]
    /\ Len(ret.text) - ret.end[1] < 80
    /\ Len(ret.value) = Len(ret.text) - ret.start[1] + 80

\* no offsets and a text of more than 160 characters
C25_WitnessAbsent ==
    /\ IsContextCall
    /\ ret.start = None
    /\ Len(ret.text) > 160
    /\ Len(ret.value) = 160

\* ------------------------------------------------------------------------
\* One selection and one decision per mention
\* ------------------------------------------------------------------------

\* the candidate lists the backend can return for the surface
BackendCandidates(surface, limit) ==
    {o.value : o \in {r \in UNION {search_candidates(up, surface, limit) : up \in BOOLEAN} :
                        r.kind = "return"}}

\* C26: a successful analyze has one MentionCandidates and one
\* DisambiguatedMention per recognized mention, in mention order; each carries
\* the mention's surface, the DisambiguatedMention also its label, start, end
\* and confidence, and the candidates are the backend's answer for the surface
\* with limit top_k, in the backend's order.
C26_OnePerMention ==
    pc = "done"
        => /\ Len(candidate_selections) = Len(mentions)
           /\ Len(decisions) = Len(mentions)
           /\ \A i \in 1..Len(mentions) :
                 /\ candidate_selections[i].surface = mentions[i].surface
                 /\ candidate_selections[i].candidates
                       \in BackendCandidates(mentions[i].surface, request[1].top_k)
                 /\ Len(candidate_selections[i].candidates) <= request[1].top_k
                 /\ decisions[i].surface = mentions[i].surface
                 /\ decisions[i].label = mentions[i].label
                 /\ decisions[i].start = mentions[i].start
                 /\ decisions[i].end = mentions[i].end
                 /\ decisions[i].confidence = mentions[i].confidence

\* three mentions, two with the same surface, and a mention with two candidates
C26_Witness ==
    /\ pc = "done"
    /\ Len(mentions) = 3
    /\ mentions[1].surface = mentions[3].surface
    /\ mentions[1].surface # mentions[2].surface
    /\ Len(candidate_selections[1].candidates) = 2
    /\ candidate_selections[1].candidates[1] # candidate_selections[1].candidates[2]

\* ------------------------------------------------------------------------
\* The chosen candidate is one of the retrieved candidates
\* ------------------------------------------------------------------------

\* identifiers of the candidates retrieved for mention i
RetrievedIris(i) ==
    {candidate_selections[i].candidates[j].iri :
        j \in 1..Len(candidate_selections[i].candidates)}

\* C27: whatever the decision call returns, the chosen candidate of every
\* DisambiguatedMention is absent or carries the non-empty identifier of one
\* of the candidates retrieved for that mention.
C27_ChosenAmongCandidates ==
    \A i \in 1..Len(decisions) :
        \/ decisions[i].chosen = None
        \/ /\ decisions[i].chosen[1].iri \notin {"", NoneIri}
           /\ decisions[i].chosen[1].iri \in RetrievedIris(i)

\* ------------------------------------------------------------------------
\* Termination of the in-memory shortest path and of the path collection
\* ------------------------------------------------------------------------

\* a returned call gave what shortest_path_fallback gives for its arguments
BfsResult ==
    BfsReturned
        => ret.outcome[1] = shortest_path_fallback(fallback_graph[1], ret.source_iri,
                                                   ret.target_iri, ret.max_hops)

\* C28: on every finite in-memory graph, with cycles, self-loops and parallel
\* edges, every shortest_path call returns, for every source, target and
\* max_hops; hence the path collection of a request comes to its end.
\* A direct call (pc = "idle") ends returned; a call made by a request, and
\* the path stage as a whole, end with _compute_paths returned (pc = "p2t").
C28_Termination ==
    /\ (BfsRunning \/ pc = "paths")
           ~> \/ pc = "idle" /\ BfsReturned
              \/ pc = "p2t"
    /\ []BfsResult

\* a call that met an entry of a visited node and an entry longer than
\* max_hops has returned
C28_Witness ==
    /\ BfsReturned
    /\ ret.max_hops = 2
    /\ Cardinality(ret.visited) >= 2
    /\ ret.outcome[1] = Returned(None)
    /\ ret.source_iri \in ret.visited


\* ------------------------------------------------------------------------
\* Imported relationships and the remote path query
\* ------------------------------------------------------------------------

\* the remote store holds an imported relationship between the two nodes
ImportedEdgeBetween(a, b) ==
    \E e \in neo4j_edges :
        /\ e.type \in ImportedTypes
        /\ {e.subject, e.object} = {a, b}

\* a remote shortest_path call, answered by the server, with no hubThreshold,
\* between two distinct nodes linked by an imported relationship
ImportedPairQueried ==
    /\ driver
    /\ ret.op = "shortest_path"
    /\ ret.up
    /\ ret.max_hops >= 1
    /\ ret.hub_threshold = None
    /\ ret.source_iri # ret.target_iri
    /\ ImportedEdgeBetween(ret.source_iri, ret.target_iri)

\* C29: every relationship type the import script creates is a type the
\* remote shortestPath pattern traverses, so the remote shortest_path between
\* two concepts linked by an imported broader or narrower relationship, with
\* maxHops >= 1 and no hubThreshold, returns a path of length 1.
C29_ImportedTypesTraversed ==
    ImportedPairQueried
        => /\ ImportedTypes \subseteq TraversedTypes
           /\ ret.outcome.kind = "return"
           /\ ret.outcome.value # None
           /\ Len(ret.outcome.value[1]) = 1

====
